---- MODULE Spec2Model ----
(***************************************************************************)
(* Verification model of smart-invest: the constrained allocation engine   *)
(* (aim/allocation/engine.py) as driven by POST /portfolio/build, the      *)
(* risk-first engine (aim/risk/first.py) as driven by the full-flow        *)
(* script, and the regime classifier (aim/regime).                         *)
(*                                                                         *)
(* Numbers.  Python floats are modelled in fixed point.  Weights and       *)
(* allocations are integers in units of 1e-8 (0.05 is 5 * Pct), scores     *)
(* are integers in units of 1e-6 (0.615 is 615000); divisions round        *)
(* towards zero.  The thresholds of the code (0.01, 0.001, 0.02, 1e-6)     *)
(* are whole numbers of units.                                             *)
(***************************************************************************)
EXTENDS Integers, Sequences, FiniteSets, TLC

\* ------------------------------------------------------------------------
\* Bounds of the model
\* ------------------------------------------------------------------------
\* largest n_positions a caller passes
MaxPositions == 4
\* largest number of date rows of the pivoted price table
MaxPriceRows == 3

\* 1.0 as a weight, in units of 1e-8
Unit == 10000 * 10000

\* 0.01 as a weight
Pct == Unit \div 100

\* 0.001 as a weight
Milli == Unit \div 1000

\* 1e-6 as a weight
Micro == Unit \div (1000 * 1000)

\* 1.0 as a score, in units of 1e-6
ScoreUnit == 1000 * 1000

\* ------------------------------------------------------------------------
\* Fixed-point helpers (TLC integers are 32 bit: a*b is never formed)
\* ------------------------------------------------------------------------
Abs(x) == IF x < 0 THEN -x ELSE x

Min(a, b) == IF a < b THEN a ELSE b

Max(a, b) == IF a > b THEN a ELSE b

\* <<q, r>> with a*b = q*c + r and 0 <= r < c, for a, b >= 0 and c > 0
RECURSIVE MulDivQR(_, _, _)
MulDivQR(a, b, c) ==
    IF b = 0 THEN <<0, 0>>
    ELSE LET h == MulDivQR(a, b \div 2, c)
             bit == b % 2
             r2 == 2 * h[2] + bit * (a % c)
         IN <<2 * h[1] + bit * (a \div c) + (r2 \div c), r2 % c>>

\* floor(a*b/c), the model of the float expression a*b/c on non-negatives
MulDiv(a, b, c) == MulDivQR(a, b, c)[1]

\* a*b/c for b of either sign (rounded towards zero)
SMulDiv(a, b, c) == IF b < 0 THEN -MulDiv(a, -b, c) ELSE MulDiv(a, b, c)

RECURSIVE SumSeq(_)
SumSeq(s) == IF s = <<>> THEN 0 ELSE Head(s) + SumSeq(Tail(s))

\* round(x, 4) on a non-negative weight: the nearest multiple of 1e-4
Round4(x) == ((x + 50 * Micro) \div (100 * Micro)) * (100 * Micro)

\* ------------------------------------------------------------------------
\* aim/config/parameters.py
\* ------------------------------------------------------------------------
Regimes == {"RISK_ON_STRONG", "RISK_ON", "TRANSITION", "RISK_OFF", "RISK_OFF_STRONG"}

MAX_POSITION_SIZE ==
    [r \in Regimes |->
        CASE r = "RISK_ON_STRONG" -> 15 * Pct
          [] r = "RISK_ON" -> 12 * Pct
          [] r = "TRANSITION" -> 8 * Pct
          [] r = "RISK_OFF" -> 5 * Pct
          [] r = "RISK_OFF_STRONG" -> 0 * Pct]

TARGET_RV_ALLOCATION ==
    [r \in Regimes |->
        CASE r = "RISK_ON_STRONG" -> 98 * Pct
          [] r = "RISK_ON" -> 95 * Pct
          [] r = "TRANSITION" -> 50 * Pct
          [] r = "RISK_OFF" -> 20 * Pct
          [] r = "RISK_OFF_STRONG" -> 5 * Pct]

MAX_SECTOR_EXPOSURE_BY_REGIME ==
    [r \in Regimes |->
        CASE r = "RISK_ON_STRONG" -> 40 * Pct
          [] r = "RISK_ON" -> 35 * Pct
          [] r = "TRANSITION" -> 20 * Pct
          [] r = "RISK_OFF" -> 12 * Pct
          [] r = "RISK_OFF_STRONG" -> 10 * Pct]

MAX_ASSET_EXPOSURE_BY_REGIME ==
    [r \in Regimes |->
        CASE r = "RISK_ON_STRONG" -> 15 * Pct
          [] r = "RISK_ON" -> 12 * Pct
          [] r = "TRANSITION" -> 6 * Pct
          [] r = "RISK_OFF" -> 4 * Pct
          [] r = "RISK_OFF_STRONG" -> 2 * Pct]

MIN_POSITION_SIZE == 1 * Pct

MAX_CONCENTRATION == 20 * Pct

\* target_portfolio_vol / sqrt(10) = 0.15 / 3.16227766 as a weight
RiskParityCoef == 4743416

\* ------------------------------------------------------------------------
\* The signals table of the reference date, joined with assets: the rows in
\* rank order (rank_universe ascending), with score_final and
\* score_volatility in score units.
\* ------------------------------------------------------------------------
Universe == <<"ITUB4", "PETR4", "BBDC4", "BBAS3", "SANB11", "VALE3">>

Tickers == {Universe[i] : i \in 1..Len(Universe)}

score_final ==
    [t \in Tickers |->
        CASE t = "ITUB4" -> 615000
          [] t = "PETR4" -> 615000
          [] t = "BBDC4" -> 385000
          [] t = "BBAS3" -> 385000
          [] t = "SANB11" -> -100000
          [] t = "VALE3" -> -200000]

score_volatility ==
    [t \in Tickers |->
        CASE t = "ITUB4" -> 300000
          [] t = "PETR4" -> 1000000
          [] t = "BBDC4" -> -1250000
          [] t = "BBAS3" -> 0
          [] t = "SANB11" -> 2000000
          [] t = "VALE3" -> 1200000]

sector ==
    [t \in Tickers |->
        CASE t = "PETR4" -> "Energia"
          [] t = "VALE3" -> "Materiais"
          [] OTHER -> "Financeiro"]

Sectors == {sector[t] : t \in Tickers}

Strategies == {"equal_weight", "score_weighted", "risk_parity", "momentum_tilt"}

\* allocation_note: "" or one of the three texts the engine writes
NoNote == [kind |-> "", k |-> 0, n |-> 0]

VARIABLES
    pc,                    \* where the request handler stands
    regime,                \* regime argument of build_portfolio_from_scores
    strategy,              \* strategy argument
    n_positions,           \* n_positions argument
    signals,               \* tickers that have a signals row on the date
    top_assets,            \* rows returned by get_top_ranked_assets
    holdings,              \* the list of holdings being built
    allocation_note,
    positive_score_count,
    final_total,           \* running total of the redistribution loop
    iterations,            \* loop counter of the redistribution loop
    portfolio_holdings,    \* rows saved by save_portfolio_to_database
    response,              \* holdings returned to the HTTP caller
    risk_assessed,         \* <<tickers, weights>> lists RiskFirstEngine approved in this run
    risk_pc,               \* where the full-flow script stands
    tickers,               \* tickers argument of validate_recommendation
    weights,               \* weights argument, by position
    intent,                \* the InvestmentIntent (risk budget and tolerance)
    price_rows,            \* number of dates the prices table has in the lookback window
    priced,                \* tickers that have price rows in the window
    assessment,            \* the RiskAssessment returned, or NoAssessment
    regime_pc,             \* where calculate_regime_for_date stands
    macro,                 \* length class of each macro series loaded
    proxy_value,           \* the value each proxy calculator yields on enough data
    scores,                \* the scores dict handed to classify_regime_from_scores
    regime_data,           \* the classification returned, or NoRegimeData
    score_pc,              \* where calculate_composite_score stands
    features_df,           \* per asset, the factor scores computed from the features
    fundamentals_df,       \* the fundamentals argument: supplied or not, and its columns
    regime_at_date,        \* regime argument of calculate_composite_score
    results,               \* the results frame returned, or NoResults
    sector_count,          \* per sector, how many rows of a ten-row ranking it has
    z_pc,                  \* where calculate_z_score stands
    values,                \* the series handed to calculate_z_score
    z_scores,              \* the series it returns
    save_pc,               \* per caller, where its save_regime_state call stands
    record,                \* per caller, the record its call has built
    regime_state,          \* the rows of table regime_state
    db_writer,             \* the connection holding SQLite's write lock, or "none"
    last_commit,           \* per date, the record of the latest committed save
    commits,               \* per date, how many saves were committed
    now,                   \* the database clock (CURRENT_TIMESTAMP)
    sim_pc,                \* where the GET /simulation/positions handler stands
    current_user,          \* the user_data get_current_user resolved from the token
    is_real,               \* the is_real query parameter
    real_allowed,          \* the tenants whose plan has allow_real_portfolio
    simulated_positions,   \* the rows of table simulated_positions
    real_positions,        \* the rows of table real_positions
    positions,             \* the rows the handler fetched
    sim_response,          \* the PositionResponse items returned
    simulated_orders,      \* the rows of table simulated_orders, by order_id
    real_orders,           \* the rows of table real_orders, by order_id
    tables_before,         \* the four tables as they stood before the last order request
    order,                 \* the OrderRequest handled last
    n_requests,            \* order requests handled so far
    pending_asset_requests, \* the rows of table pending_asset_requests, by request_id
    clock,                 \* the database's datetime('now'), in days
    rq_pc,                 \* outcome of the last POST /recommendation/asset-request
    rq_prompt,             \* the prompt of that request
    rq_response,           \* the AssetRequestResponse returned
    signal_rows,           \* the rows of table signals on one date, by ticker
    scores_df,             \* the frame handed to the last save_scores_to_database
    n_saves,               \* save_scores_to_database calls made so far
    parameter_map,         \* IntentParser.PARAMETER_MAP as the process holds it
    parsed,                \* the prompts parse_intent was called with, in order
    intent_out             \* the InvestmentIntent returned last

allocVars == <<pc, regime, strategy, n_positions, signals, top_assets, holdings,
               allocation_note, positive_score_count, final_total, iterations,
               portfolio_holdings, response, risk_assessed>>

\* ------------------------------------------------------------------------
\* aim/scoring/engine.py, aim/risk/manager.py
\* ------------------------------------------------------------------------
SelectSeq2(s, keep) ==
    LET F[i \in 0..Len(s)] ==
            IF i = 0 THEN <<>>
            ELSE IF s[i] \in keep THEN Append(F[i - 1], s[i]) ELSE F[i - 1]
    IN F[Len(s)]

\* pandas head(n): the first n rows, or all but the last -n rows when n < 0
HeadN(s, n) ==
    IF n >= 0 THEN SubSeq(s, 1, Min(n, Len(s)))
    ELSE SubSeq(s, 1, Max(Len(s) + n, 0))

\* ORDER BY rank_universe ASC LIMIT top_n (SQLite: a negative LIMIT is no limit)
get_top_ranked_assets(sig, top_n) ==
    LET rows == SelectSeq2(Universe, sig)
    IN IF top_n < 0 THEN rows ELSE SubSeq(rows, 1, Min(top_n, Len(rows)))

MaxPos(r) == MAX_POSITION_SIZE[r]

calculate_position_size_equal_weight(n, r) ==
    IF n <= 0 THEN 0 ELSE Min(Unit \div n, MaxPos(r))

calculate_position_size_risk_based(volatility) ==
    IF volatility <= 0 THEN MIN_POSITION_SIZE
    ELSE Max(MIN_POSITION_SIZE,
             Min(MAX_CONCENTRATION, MulDiv(RiskParityCoef, ScoreUnit, volatility)))

\* ------------------------------------------------------------------------
\* aim/allocation/engine.py: build_portfolio_from_scores
\* ------------------------------------------------------------------------
Holding(t, w) ==
    [ticker |-> t, weight |-> w, sector |-> sector[t],
     asset_capped |-> FALSE, sector_capped |-> FALSE]

Weights(hs) == [i \in 1..Len(hs) |-> hs[i].weight]

TotalWeight(hs) == SumSeq(Weights(hs))

SetWeights(hs, w) == [i \in 1..Len(hs) |-> [hs[i] EXCEPT !.weight = w[i]]]

MinOf(S) == CHOOSE x \in S : \A y \in S : x <= y

\* step 4, strategy equal_weight (also the fallback of score_weighted)
SizeEqualWeight(selected, r, n) ==
    [i \in 1..Len(selected) |->
        Holding(selected[i], calculate_position_size_equal_weight(n, r))]

\* step 4, strategy score_weighted, when some selected score is positive
SizeScoreWeighted(selected, r, n) ==
    LET raw == [i \in 1..Len(selected) |-> score_final[selected[i]]]
        nvalid == Cardinality({i \in 1..Len(selected) : raw[i] > 0})
        min_score == MinOf({raw[i] : i \in 1..Len(selected)})
        effective_scores ==
            IF nvalid < n
            THEN [i \in 1..Len(selected) |-> raw[i] - min_score + 1]
            ELSE [i \in 1..Len(selected) |-> Max(raw[i], 0)]
        total_score == SumSeq(effective_scores)
    IN [i \in 1..Len(selected) |->
            Holding(selected[i],
                    IF total_score > 0
                    THEN Min(MulDiv(effective_scores[i], TARGET_RV_ALLOCATION[r],
                                    total_score),
                             MaxPos(r))
                    ELSE 0)]

\* step 4, strategy risk_parity
SizeRiskParity(selected, r) ==
    [i \in 1..Len(selected) |->
        Holding(selected[i],
                Min(calculate_position_size_risk_based(
                        Abs(score_volatility[selected[i]])),
                    MaxPos(r)))]

PositiveScores(selected) ==
    Cardinality({i \in 1..Len(selected) : score_final[selected[i]] > 0})

\* step 4: the holdings of each strategy; an unknown strategy sizes nothing
InitialHoldings(selected, st, r, n) ==
    CASE st = "equal_weight" -> SizeEqualWeight(selected, r, n)
      [] st = "score_weighted" ->
            IF PositiveScores(selected) = 0
            THEN SizeEqualWeight(selected, r, n)
            ELSE SizeScoreWeighted(selected, r, n)
      [] st = "risk_parity" -> SizeRiskParity(selected, r)
      [] OTHER -> <<>>

\* the note step 4 leaves
InitialNote(selected, st, n) ==
    IF st # "score_weighted" THEN NoNote
    ELSE IF PositiveScores(selected) = 0
         THEN [kind |-> "Nenhum ativo com score positivo", k |-> 0, n |-> n]
    ELSE IF PositiveScores(selected) < n
         THEN [kind |-> "ativos tinham score positivo",
               k |-> PositiveScores(selected), n |-> n]
    ELSE NoNote

\* step 5.1, first pass: clamp each weight to the regime's asset ceiling
ApplyAssetCap(hs, r) ==
    [i \in 1..Len(hs) |->
        IF hs[i].weight > MAX_ASSET_EXPOSURE_BY_REGIME[r]
        THEN [hs[i] EXCEPT !.weight = MAX_ASSET_EXPOSURE_BY_REGIME[r],
                           !.asset_capped = TRUE]
        ELSE hs[i]]

SectorExposure(hs, s) ==
    SumSeq([i \in 1..Len(hs) |-> IF hs[i].sector = s THEN hs[i].weight ELSE 0])

\* step 5.1, second pass: scale the holdings of every sector over its limit
ApplySectorCap(hs, r) ==
    LET lim == MAX_SECTOR_EXPOSURE_BY_REGIME[r]
    IN [i \in 1..Len(hs) |->
            LET exposure == SectorExposure(hs, hs[i].sector)
            IN IF exposure > lim
               THEN [hs[i] EXCEPT !.weight = MulDiv(hs[i].weight, lim, exposure),
                                  !.sector_capped = TRUE]
               ELSE hs[i]]

\* lines 264-271: an invalid total falls back to an equal split of the target
FallbackEqual(hs, r) ==
    IF TotalWeight(hs) <= 0 /\ Len(hs) > 0
    THEN SetWeights(hs, [i \in 1..Len(hs) |-> TARGET_RV_ALLOCATION[r] \div Len(hs)])
    ELSE hs

\* lines 273-280: scale to the target, each weight limited by MAX_POSITION_SIZE
ScaleToTarget(hs, r) ==
    LET total == TotalWeight(hs)
        target == TARGET_RV_ALLOCATION[r]
    IN IF total > 0 /\ Abs(total - target) > Pct
       THEN SetWeights(hs, [i \in 1..Len(hs) |->
                Min(MulDiv(hs[i].weight, target, total), MaxPos(r))])
       ELSE hs

NormalizeToTarget(hs, r) == ScaleToTarget(FallbackEqual(hs, r), r)

max_iterations == 20

\* the while condition of the redistribution loop, line 287
LoopConditionNoCap(total, r, it) == Abs(total - TARGET_RV_ALLOCATION[r]) > Milli

LoopCondition(total, r, it) ==
    Abs(total - TARGET_RV_ALLOCATION[r]) > Milli /\ it < max_iterations

\* line 292: the holdings that can still receive weight
Uncapped(hs, r) == {i \in 1..Len(hs) : hs[i].weight < MaxPos(r) - Milli}

\* lines 297-303: one pass of the loop body over the uncapped holdings
Redistribute(hs, r, total) ==
    LET excess == TARGET_RV_ALLOCATION[r] - total
        unc == Uncapped(hs, r)
        total_uncapped_weight ==
            SumSeq([i \in 1..Len(hs) |-> IF i \in unc THEN hs[i].weight ELSE 0])
    IN IF total_uncapped_weight > 0
       THEN SetWeights(hs, [i \in 1..Len(hs) |->
                IF i \in unc
                THEN Min(hs[i].weight
                           + SMulDiv(hs[i].weight, excess, total_uncapped_weight),
                         MaxPos(r))
                ELSE hs[i].weight])
       ELSE hs

\* lines 308-313: negative weights become 0, every weight is rounded to 4 places
Cleanup(hs) ==
    SetWeights(hs, [i \in 1..Len(hs) |->
        IF hs[i].weight < 0 THEN 0 ELSE Round4(hs[i].weight)])

\* line 340: the holdings marked by the asset cap pass
capped_assets(hs) == Cardinality({i \in 1..Len(hs) : hs[i].asset_capped})

\* line 341: the holdings marked by the sector cap pass
sector_capped_assets(hs) == Cardinality({i \in 1..Len(hs) : hs[i].sector_capped})

\* lines 338-347: the note of the diagnostics
FinalNote(note, hs, r) ==
    IF note = NoNote /\ TARGET_RV_ALLOCATION[r] - TotalWeight(hs) > 2 * Pct
    THEN [kind |-> "Alocacao abaixo do alvo por restricoes ativas",
          k |-> capped_assets(hs), n |-> sector_capped_assets(hs)]
    ELSE note

riskVars == <<risk_pc, tickers, weights, intent, price_rows, priced, assessment>>

regimeVars == <<regime_pc, macro, proxy_value, scores, regime_data>>

scoringVars == <<score_pc, features_df, fundamentals_df, regime_at_date, results>>

zVars == <<z_pc, values, z_scores>>

storeVars == <<save_pc, record, regime_state, db_writer, last_commit, commits, now>>

simVars == <<sim_pc, current_user, is_real, real_allowed, simulated_positions,
             real_positions, positions, sim_response>>

orderVars == <<simulated_orders, real_orders, tables_before, order, n_requests>>

requestVars == <<pending_asset_requests, clock, rq_pc, rq_prompt, rq_response>>

signalVars == <<signal_rows, scores_df, n_saves>>

intentVars == <<parameter_map, parsed, intent_out>>

libVars == <<signalVars, intentVars>>

appVars == <<orderVars, requestVars, libVars>>

otherVars == <<scoringVars, sector_count, zVars, storeVars, simVars, appVars>>

vars == <<allocVars, riskVars, regimeVars, otherVars>>

NoAssessment == [made |-> FALSE]

NoRegimeData == [made |-> FALSE]

\* the state of the variables of a component that takes no part in a run
RiskIdle ==
    /\ risk_pc = "idle"
    /\ tickers = <<>>
    /\ weights = <<>>
    /\ intent = [max_volatility |-> 0, max_drawdown |-> 0, max_concentration |-> 0,
                 risk_tolerance |-> "moderate"]
    /\ price_rows = 0
    /\ priced = {}
    /\ assessment = NoAssessment

\* the five macro variables of the regime score
Proxies == {"yield_curve", "risk_spread", "ibov_trend", "capital_flow",
            "liquidity_sentiment"}

\* a score that is None
None == <<>>

NoScores == [p \in Proxies |-> None]

RegimeIdle ==
    /\ regime_pc = "idle"
    /\ macro = [selic |-> "empty", usd |-> "empty", ibov |-> "empty", merged |-> "short"]
    /\ proxy_value = [p \in Proxies |-> 0]
    /\ scores = NoScores
    /\ regime_data = NoRegimeData

NoFundamentals ==
    [supplied |-> FALSE, quality_metrics |-> FALSE, value_multiples |-> FALSE,
     rows |-> <<>>]

NoResults == [made |-> FALSE]

ScoringIdle ==
    /\ score_pc = "idle"
    /\ features_df = <<>>
    /\ fundamentals_df = NoFundamentals
    /\ regime_at_date = "TRANSITION"
    /\ results = NoResults

\* the sectors of a ranking whose sector column is an input
SectorList == <<"Financeiro", "Energia", "Materiais", "Consumo">>

NoSectorCount == [k \in 1..Len(SectorList) |-> 0]

ZIdle ==
    /\ z_pc = "idle"
    /\ values = <<>>
    /\ z_scores = <<>>

\* the callers of save_regime_state and the dates they save
Savers == {"daily_update", "rerun"}

Dates == {"2024-01-02", "2024-01-03"}

NoRecord == [made |-> FALSE]

\* an empty regime_state table and no call under way
StoreIdle ==
    /\ save_pc = [p \in Savers |-> "idle"]
    /\ record = [p \in Savers |-> NoRecord]
    /\ regime_state = {}
    /\ db_writer = "none"
    /\ last_commit = [d \in Dates |-> NoRecord]
    /\ commits = [d \in Dates |-> 0]
    /\ now = 0

SimIdle ==
    /\ sim_pc = "idle"
    /\ current_user = [user_id |-> 1, tenant_id |-> 1]
    /\ is_real = FALSE
    /\ real_allowed = {}
    /\ simulated_positions = {}
    /\ real_positions = {}
    /\ positions = {}
    /\ sim_response = {}

NoOrder == [ticker |-> "", order_type |-> "", quantity |-> 0, is_real |-> FALSE]

NoTables ==
    [simulated_positions |-> {}, real_positions |-> {},
     simulated_orders |-> <<>>, real_orders |-> <<>>]

OrderIdle ==
    /\ simulated_orders = <<>>
    /\ real_orders = <<>>
    /\ tables_before = NoTables
    /\ order = NoOrder
    /\ n_requests = 0

NoResponse == [status |-> "", request_id |-> 0]

RequestIdle ==
    /\ pending_asset_requests = <<>>
    /\ clock = 0
    /\ rq_pc = "idle"
    /\ rq_prompt = <<>>
    /\ rq_response = NoResponse

\* no frame: save_scores_to_database has not been called
NoFrame == <<>>

SignalIdle ==
    /\ signal_rows = <<>>
    /\ scores_df = NoFrame
    /\ n_saves = 0

\* aim/intent/parser.py lines 133-224: IntentParser.PARAMETER_MAP as the class
\* body builds it. max_volatility, max_drawdown and max_concentration in
\* hundredths, min_liquidity in tenths.
Params(vol, dd, factors, liq, conc, stop, freq) ==
    [max_volatility |-> vol, max_drawdown |-> dd, priority_factors |-> factors,
     min_liquidity |-> liq, max_concentration |-> conc, use_stop_loss |-> stop,
     rebalance_frequency |-> freq]

PARAMETER_MAP ==
    (<<"return", "short_term">> :>
        Params(40, 25, <<"momentum", "volatility">>, 7, 25, TRUE, "weekly"))
    @@ (<<"return", "medium_term">> :>
        Params(30, 20, <<"momentum", "value", "quality">>, 6, 20, TRUE, "monthly"))
    @@ (<<"return", "long_term">> :>
        Params(25, 15, <<"value", "quality", "momentum">>, 5, 15, FALSE, "quarterly"))
    @@ (<<"protection", "short_term">> :>
        Params(10, 5, <<"quality", "liquidity">>, 9, 10, TRUE, "weekly"))
    @@ (<<"protection", "medium_term">> :>
        Params(12, 8, <<"quality", "value", "liquidity">>, 8, 12, TRUE, "monthly"))
    @@ (<<"protection", "long_term">> :>
        Params(15, 10, <<"quality", "value">>, 7, 10, FALSE, "quarterly"))
    @@ (<<"income", "medium_term">> :>
        Params(15, 10, <<"value", "quality">>, 7, 15, TRUE, "monthly"))
    @@ (<<"income", "long_term">> :>
        Params(18, 12, <<"value", "quality">>, 6, 12, FALSE, "quarterly"))
    @@ (<<"speculation", "short_term">> :>
        Params(50, 35, <<"momentum", "volatility">>, 6, 30, TRUE, "daily"))
    @@ (<<"balanced", "medium_term">> :>
        Params(20, 12, <<"momentum", "value", "quality">>, 6, 15, TRUE, "monthly"))

\* no intent: parse_intent has not been called
NoIntent == [objective |-> "", priority_factors |-> <<>>]

\* a process that has imported aim.intent.parser and parsed nothing
IntentIdle ==
    /\ parameter_map = PARAMETER_MAP
    /\ parsed = <<>>
    /\ intent_out = NoIntent

LibIdle == SignalIdle /\ IntentIdle

AppIdle == OrderIdle /\ RequestIdle /\ LibIdle

OtherIdle ==
    /\ ScoringIdle
    /\ sector_count = NoSectorCount
    /\ ZIdle
    /\ StoreIdle
    /\ SimIdle
    /\ AppIdle

AllocIdle ==
    /\ pc = "idle"
    /\ regime = "TRANSITION"
    /\ strategy = "equal_weight"
    /\ n_positions = 0
    /\ signals = {}
    /\ top_assets = <<>>
    /\ holdings = <<>>
    /\ allocation_note = NoNote
    /\ positive_score_count = 0
    /\ final_total = 0
    /\ iterations = 0
    /\ portfolio_holdings = {}
    /\ response = <<>>

\* ------------------------------------------------------------------------
\* api/routers/portfolio.py: POST /portfolio/build, with the steps of
\* build_portfolio_from_scores it calls
\* ------------------------------------------------------------------------
InitBuild ==
    /\ pc = "request"
    /\ regime \in Regimes
    /\ strategy \in Strategies
    /\ n_positions \in -1..MaxPositions
    /\ signals \in SUBSET Tickers
    /\ top_assets = <<>>
    /\ holdings = <<>>
    /\ allocation_note = NoNote
    /\ positive_score_count = 0
    /\ final_total = 0
    /\ iterations = 0
    /\ portfolio_holdings = {}
    /\ response = <<>>
    /\ risk_assessed = {}
    /\ RiskIdle
    /\ RegimeIdle
    /\ OtherIdle

candidate_multiplier(st) == IF st = "score_weighted" THEN 8 ELSE 3

\* lines 62-198: fetch the ranking, keep the top N, size them by strategy
SelectAndSize ==
    /\ pc = "request"
    /\ LET top == get_top_ranked_assets(signals,
                      n_positions * candidate_multiplier(strategy))
           selected == HeadN(top, n_positions)
       IN /\ top_assets' = top
          /\ IF top = <<>>
             THEN /\ pc' = "empty"
                  /\ UNCHANGED <<holdings, allocation_note, positive_score_count>>
             ELSE /\ pc' = "sized"
                  /\ holdings' = InitialHoldings(selected, strategy, regime, n_positions)
                  /\ allocation_note' = InitialNote(selected, strategy, n_positions)
                  /\ positive_score_count' =
                        IF strategy = "score_weighted" THEN PositiveScores(selected) ELSE 0
    /\ UNCHANGED <<regime, strategy, n_positions, signals, final_total, iterations,
                   portfolio_holdings, response, risk_assessed, riskVars, regimeVars,
                   otherVars>>

\* lines 223-230
ApplyAssetCaps ==
    /\ pc = "sized"
    /\ holdings' = ApplyAssetCap(holdings, regime)
    /\ pc' = "asset_capped"
    /\ UNCHANGED <<regime, strategy, n_positions, signals, top_assets, allocation_note,
                   positive_score_count, final_total, iterations, portfolio_holdings,
                   response, risk_assessed, riskVars, regimeVars,
                   otherVars>>

\* lines 232-262
ApplySectorCaps ==
    /\ pc = "asset_capped"
    /\ holdings' = ApplySectorCap(holdings, regime)
    /\ pc' = "sector_capped"
    /\ UNCHANGED <<regime, strategy, n_positions, signals, top_assets, allocation_note,
                   positive_score_count, final_total, iterations, portfolio_holdings,
                   response, risk_assessed, riskVars, regimeVars,
                   otherVars>>

\* lines 264-285: target normalization, then the loop variables are set
Normalize ==
    /\ pc = "sector_capped"
    /\ holdings' = NormalizeToTarget(holdings, regime)
    /\ final_total' = TotalWeight(holdings')
    /\ iterations' = 0
    /\ pc' = "loop"
    /\ UNCHANGED <<regime, strategy, n_positions, signals, top_assets, allocation_note,
                   positive_score_count, portfolio_holdings, response, risk_assessed,
                   riskVars, regimeVars,
                   otherVars>>

\* lines 287-306: one completed iteration of the redistribution loop
RedistributeStep ==
    /\ pc = "loop"
    /\ LoopCondition(final_total, regime, iterations)
    /\ Uncapped(holdings, regime) # {}
    /\ holdings' = Redistribute(holdings, regime, final_total)
    /\ final_total' = TotalWeight(holdings')
    /\ iterations' = iterations + 1
    /\ UNCHANGED <<pc, regime, strategy, n_positions, signals, top_assets,
                   allocation_note, positive_score_count, portfolio_holdings, response,
                   risk_assessed, riskVars, regimeVars,
                   otherVars>>

\* the loop is left (condition false, or break at line 295); lines 308-359
FinishBuild ==
    /\ pc = "loop"
    /\ \/ ~LoopCondition(final_total, regime, iterations)
       \/ Uncapped(holdings, regime) = {}
    /\ holdings' = Cleanup(holdings)
    /\ allocation_note' = FinalNote(allocation_note, holdings', regime)
    /\ pc' = "built"
    /\ UNCHANGED <<regime, strategy, n_positions, signals, top_assets,
                   positive_score_count, final_total, iterations, portfolio_holdings,
                   response, risk_assessed, riskVars, regimeVars,
                   otherVars>>

\* portfolio.py lines 96-97: no holdings, the request fails
RouteFail ==
    /\ \/ pc = "empty"
       \/ pc = "built" /\ holdings = <<>>
    /\ pc' = "http_error"
    /\ UNCHANGED <<regime, strategy, n_positions, signals, top_assets, holdings,
                   allocation_note, positive_score_count, final_total, iterations,
                   portfolio_holdings, response, risk_assessed, riskVars, regimeVars,
                   otherVars>>

\* portfolio.py line 168: save_portfolio_to_database upserts one row per holding
SavePortfolio ==
    /\ pc = "built"
    /\ holdings # <<>>
    /\ portfolio_holdings' =
          {[ticker |-> holdings[i].ticker, weight |-> holdings[i].weight] :
              i \in 1..Len(holdings)}
    /\ pc' = "saved"
    /\ UNCHANGED <<regime, strategy, n_positions, signals, top_assets, holdings,
                   allocation_note, positive_score_count, final_total, iterations,
                   response, risk_assessed, riskVars, regimeVars,
                   otherVars>>

\* portfolio.py lines 179-209: the holdings go out in the response
Respond ==
    /\ pc = "saved"
    /\ response' = holdings
    /\ pc' = "responded"
    /\ UNCHANGED <<regime, strategy, n_positions, signals, top_assets, holdings,
                   allocation_note, positive_score_count, final_total, iterations,
                   portfolio_holdings, risk_assessed, riskVars, regimeVars,
                   otherVars>>

NextBuild ==
    \/ SelectAndSize
    \/ ApplyAssetCaps
    \/ ApplySectorCaps
    \/ Normalize
    \/ RedistributeStep
    \/ FinishBuild
    \/ RouteFail
    \/ SavePortfolio
    \/ Respond

SpecBuild == InitBuild /\ [][NextBuild]_vars

\* the function has returned a non-empty holding list
Built == pc \in {"built", "saved", "responded"} /\ holdings # <<>>

\* a call within the documented contract: a positive position count and one
\* of the three strategies
ContractCall ==
    n_positions >= 1 /\ strategy \in {"equal_weight", "score_weighted", "risk_parity"}

\* ------------------------------------------------------------------------
\* aim/risk/first.py: RiskFirstEngine, as driven by scripts/demo_full_flow.py.
\* Volatility, drawdown, concentration and the budget are integers in units
\* of 1e-6; daily returns are in basis points.  A float that may be NaN is
\* <<>> (NaN) or <<x>>.
\* ------------------------------------------------------------------------
RiskUnit == 1000 * 1000

NaN == <<>>

Num(x) == <<x>>

\* the columns of the pivoted price table come out in ticker order
TickerOrder == <<"BBAS3", "ITUB4", "PETR4">>

RiskTickers == {TickerOrder[i] : i \in 1..Len(TickerOrder)}

\* pct_change() of the close prices stored for each ticker, row by row
daily_returns ==
    [t \in RiskTickers |->
        CASE t = "BBAS3" -> <<100, -100, 200, -50, 150, 50>>
          [] t = "ITUB4" -> <<200, 100, -300, 50, -100, 150>>
          [] t = "PETR4" -> <<-300, 250, 100, -200, 300, -100>>]

DD_MULTIPLIERS ==
    [r \in {"conservative", "moderate", "aggressive", "speculative"} |->
        CASE r = "conservative" -> 15
          [] r = "moderate" -> 20
          [] r = "aggressive" -> 25
          [] r = "speculative" -> 30]

\* the InvestmentIntent records a caller hands in: three as parse_intent
\* builds them and one built directly with a wide budget
Intents ==
    { [max_volatility |-> (7 * RiskUnit) \div 100, max_drawdown |-> (35 * RiskUnit) \div 1000,
       max_concentration |-> (10 * RiskUnit) \div 100, risk_tolerance |-> "conservative"],
      [max_volatility |-> (30 * RiskUnit) \div 100, max_drawdown |-> (20 * RiskUnit) \div 100,
       max_concentration |-> (20 * RiskUnit) \div 100, risk_tolerance |-> "moderate"],
      [max_volatility |-> (50 * RiskUnit) \div 100, max_drawdown |-> (40 * RiskUnit) \div 100,
       max_concentration |-> (30 * RiskUnit) \div 100, risk_tolerance |-> "speculative"],
      [max_volatility |-> (50 * RiskUnit) \div 100, max_drawdown |-> (70 * RiskUnit) \div 100,
       max_concentration |-> RiskUnit, risk_tolerance |-> "conservative"] }

WeightChoices == {20 * Pct, 50 * Pct}

\* lists of distinct tickers
TickerLists ==
    {l \in UNION {[1..n -> RiskTickers] : n \in 1..Cardinality(RiskTickers)} :
        \A i, j \in 1..Len(l) : i # j => l[i] # l[j]}

RECURSIVE ISqrt(_)
ISqrt(n) ==
    IF n < 2 THEN n
    ELSE LET s == 2 * ISqrt(n \div 4)
         IN IF (s + 1) * (s + 1) > n THEN s ELSE s + 1

\* _get_historical_prices: the pivot has one column per ticker with rows
get_historical_prices(pr, rows) == IF rows = 0 THEN <<>> ELSE SelectSeq2(TickerOrder, pr)

\* rows of price_data.pct_change().dropna()
ReturnRows(rows) == Max(rows - 1, 0)

\* returns.cov() entry of two columns over n >= 2 rows, in bp^2
Cov(a, b, n) ==
    LET ra == daily_returns[a]
        rb == daily_returns[b]
        sab == SumSeq([d \in 1..n |-> ra[d] * rb[d]])
        sa == SumSeq([d \in 1..n |-> ra[d]])
        sb == SumSeq([d \in 1..n |-> rb[d]])
    IN (n * sab - sa * sb) \div (n * (n - 1))

\* w.T @ cov @ w with the weights taken by position, in bp^2
PortfolioVar(cols, w, n) ==
    SumSeq([k \in 1..(Len(cols) * Len(cols)) |->
        LET i == ((k - 1) \div Len(cols)) + 1
            j == ((k - 1) % Len(cols)) + 1
            ww == (w[i] \div Pct) * (w[j] \div Pct)
            c == Cov(cols[i], cols[j], n)
        IN IF c < 0 THEN -MulDiv(ww, -c, 10000) ELSE MulDiv(ww, c, 10000)])

\* np.dot raises when the table has not one column per weight
ShapeMismatch(cols, w) == cols # <<>> /\ Len(cols) # Len(w)

calculate_portfolio_volatility(cols, w, rows) ==
    IF cols = <<>> THEN Num(RiskUnit \div 2)
    ELSE IF ReturnRows(rows) = 0 THEN Num(RiskUnit \div 2)
    ELSE IF ReturnRows(rows) = 1 THEN NaN
    ELSE LET v == PortfolioVar(cols, w, ReturnRows(rows))
         IN IF v < 0 THEN NaN ELSE Num(ISqrt(252 * v) * 100)

\* row i of w * (cov @ w), in bp^2: the share of the variance that
\* weights_array * marginal_contrib attributes to column i
RiskShare(cols, w, n, i) ==
    SumSeq([j \in 1..Len(cols) |->
        LET ww == (w[i] \div Pct) * (w[j] \div Pct)
            c == Cov(cols[i], cols[j], n)
        IN IF c < 0 THEN -MulDiv(ww, -c, 10000) ELSE MulDiv(ww, c, 10000)])

\* _calculate_risk_contributions: dict(zip(price_data.columns, contributions)),
\* every entry NaN when the covariance matrix is NaN
calculate_risk_contributions(cols, w, rows) ==
    IF cols = <<>> THEN <<>>
    ELSE LET n == ReturnRows(rows)
             v == PortfolioVar(cols, w, n)
         IN [t \in {cols[i] : i \in 1..Len(cols)} |->
                LET i == CHOOSE k \in 1..Len(cols) : cols[k] = t
                    s == RiskShare(cols, w, n, i)
                IN IF n < 2 THEN NaN
                   ELSE IF v = 0 THEN Num(RiskUnit \div Len(w))
                   ELSE IF (s < 0) = (v < 0)
                        THEN Num(MulDiv(Abs(s), RiskUnit, Abs(v)))
                        ELSE Num(-MulDiv(Abs(s), RiskUnit, Abs(v)))]

estimate_max_drawdown(vol, risk_tolerance) ==
    IF vol = NaN THEN NaN ELSE Num((vol[1] * DD_MULTIPLIERS[risk_tolerance]) \div 10)

\* the Herfindahl index of the weights
calculate_concentration(w) ==
    SumSeq([i \in 1..Len(w) |-> (w[i] \div Pct) * (w[i] \div Pct) * 100])

\* x > limit * 1.2 on floats: false when x is NaN
Exceeds120(x, limit) == x # NaN /\ x[1] * 10 > limit * 12

check_risk_limits(vol, dd, conc, it) ==
    LET w1 == IF Exceeds120(vol, it.max_volatility) THEN <<"Volatilidade">> ELSE <<>>
        w2 == IF Exceeds120(dd, it.max_drawdown) THEN <<"Drawdown esperado">> ELSE <<>>
        w3 == IF conc > it.max_concentration THEN <<"Concentracao">> ELSE <<>>
        warnings == w1 \o w2 \o w3
    IN [within_limits |-> Len(warnings) = 0, warnings |-> warnings]

assess_portfolio_risk(tk, w, it, pr, rows) ==
    LET cols == get_historical_prices(pr, rows)
        vol == calculate_portfolio_volatility(cols, w, rows)
        dd == estimate_max_drawdown(vol, it.risk_tolerance)
        conc == calculate_concentration(w)
        chk == check_risk_limits(vol, dd, conc, it)
    IN [made |-> TRUE,
        portfolio_volatility |-> vol,
        expected_max_drawdown |-> dd,
        concentration_score |-> conc,
        within_risk_limits |-> chk.within_limits,
        risk_warnings |-> chk.warnings,
        asset_contributions |-> calculate_risk_contributions(cols, w, rows)]

InitRisk ==
    /\ risk_pc = "start"
    /\ tickers \in TickerLists
    /\ weights \in [1..Len(tickers) -> WeightChoices]
    /\ intent \in Intents
    /\ price_rows \in 0..MaxPriceRows
    /\ priced \in SUBSET {tickers[i] : i \in 1..Len(tickers)}
    /\ (price_rows = 0) = (priced = {})
    /\ assessment = NoAssessment
    /\ risk_assessed = {}
    /\ AllocIdle
    /\ RegimeIdle
    /\ OtherIdle

\* demo_full_flow.py lines 99-102: validate_recommendation runs the assessment
ValidateRecommendation ==
    /\ risk_pc = "start"
    /\ IF ShapeMismatch(get_historical_prices(priced, price_rows), weights)
       THEN /\ risk_pc' = "raised"
            /\ UNCHANGED <<assessment, risk_assessed>>
       ELSE /\ assessment' = assess_portfolio_risk(tickers, weights, intent,
                                                   priced, price_rows)
            /\ risk_pc' = IF assessment'.within_risk_limits
                          THEN "approved" ELSE "rejected"
            /\ risk_assessed' = IF assessment'.within_risk_limits
                                THEN risk_assessed \cup {<<tickers, weights>>}
                                ELSE risk_assessed
    /\ UNCHANGED <<pc, regime, strategy, n_positions, signals, top_assets, holdings,
                   allocation_note, positive_score_count, final_total, iterations,
                   portfolio_holdings, response, tickers, weights, intent, price_rows,
                   priced, regimeVars, otherVars>>

\* demo_full_flow.py lines 110-114: a rejected recommendation ends the flow
RejectRecommendation ==
    /\ risk_pc = "rejected"
    /\ risk_pc' = "returned"
    /\ UNCHANGED <<allocVars, tickers, weights, intent, price_rows, priced,
                   assessment, regimeVars, otherVars>>

\* demo_full_flow.py lines 116-139: an approved one is enriched and shown
EnrichRecommendation ==
    /\ risk_pc = "approved"
    /\ risk_pc' = "surfaced"
    /\ UNCHANGED <<allocVars, tickers, weights, intent, price_rows, priced,
                   assessment, regimeVars, otherVars>>

NextRisk ==
    \/ ValidateRecommendation
    \/ RejectRecommendation
    \/ EnrichRecommendation

SpecRisk == InitRisk /\ [][NextRisk]_vars

\* ------------------------------------------------------------------------
\* aim/regime/calculator.py: classify_regime_from_scores.  Scores are whole
\* numbers, weights are in tenths, and the composite weighted_sum /
\* (total_score / 2) is kept as the fraction num / den with den > 0.
\* ------------------------------------------------------------------------
REGIME_VARIABLE_WEIGHTS ==
    [p \in Proxies |->
        CASE p = "yield_curve" -> 25
          [] p = "risk_spread" -> 20
          [] p = "ibov_trend" -> 25
          [] p = "capital_flow" -> 15
          [] p = "liquidity_sentiment" -> 15]

REGIME_THRESHOLDS ==
    [risk_on_strong |-> 8, risk_on |-> 4, risk_off |-> -4, risk_off_strong |-> -8]

\* the score values a caller of classify_regime_from_scores passes
ScoreValues == {-4, -2, -1, 0, 1, 2, 4}

RECURSIVE SumOver(_, _)
SumOver(S, f) ==
    IF S = {} THEN 0
    ELSE LET x == CHOOSE y \in S : TRUE IN f[x] + SumOver(S \ {x}, f)

\* the variables whose score is not None
Available(sc) == {p \in Proxies : sc[p] # None}

weighted_sum_sign_error(sc) ==
    SumOver(Available(sc),
            [p \in Available(sc) |->
                IF p = "ibov_trend" THEN -(sc[p][1] * REGIME_VARIABLE_WEIGHTS[p])
                ELSE sc[p][1] * REGIME_VARIABLE_WEIGHTS[p]])

weighted_sum(sc) ==
    SumOver(Available(sc),
            [p \in Available(sc) |-> sc[p][1] * REGIME_VARIABLE_WEIGHTS[p]])

total_score(sc) == SumOver(Available(sc), REGIME_VARIABLE_WEIGHTS)

final_score(sc) ==
    IF total_score(sc) > 0
    THEN [num |-> 2 * weighted_sum(sc), den |-> total_score(sc)]
    ELSE [num |-> 0, den |-> 1]

\* lines 276-285: the threshold ladder
RegimeOfStrict(f) ==
    IF f.num > REGIME_THRESHOLDS.risk_on_strong * f.den THEN "RISK_ON_STRONG"
    ELSE IF f.num >= REGIME_THRESHOLDS.risk_on * f.den THEN "RISK_ON"
    ELSE IF f.num <= REGIME_THRESHOLDS.risk_off_strong * f.den THEN "RISK_OFF_STRONG"
    ELSE IF f.num <= REGIME_THRESHOLDS.risk_off * f.den THEN "RISK_OFF"
    ELSE "TRANSITION"

RegimeOf(f) ==
    IF f.num >= REGIME_THRESHOLDS.risk_on_strong * f.den THEN "RISK_ON_STRONG"
    ELSE IF f.num >= REGIME_THRESHOLDS.risk_on * f.den THEN "RISK_ON"
    ELSE IF f.num <= REGIME_THRESHOLDS.risk_off_strong * f.den THEN "RISK_OFF_STRONG"
    ELSE IF f.num <= REGIME_THRESHOLDS.risk_off * f.den THEN "RISK_OFF"
    ELSE "TRANSITION"

classify_regime_from_scores(sc) ==
    [made |-> TRUE,
     regime |-> RegimeOf(final_score(sc)),
     final_score |-> final_score(sc),
     weighted_sum |-> weighted_sum(sc),
     total_weight |-> total_score(sc)]

InitClassify ==
    /\ regime_pc = "call"
    /\ scores \in [Proxies -> {None} \cup {Num(v) : v \in ScoreValues}]
    /\ macro = [selic |-> "empty", usd |-> "empty", ibov |-> "empty", merged |-> "short"]
    /\ proxy_value = [p \in Proxies |-> 0]
    /\ regime_data = NoRegimeData
    /\ risk_assessed = {}
    /\ AllocIdle
    /\ RiskIdle
    /\ OtherIdle

\* a direct call of classify_regime_from_scores
ClassifyRegimeFromScores ==
    /\ regime_pc = "call"
    /\ regime_data' = classify_regime_from_scores(scores)
    /\ regime_pc' = "classified"
    /\ UNCHANGED <<allocVars, riskVars, macro, proxy_value, scores, otherVars>>

NextClassify == ClassifyRegimeFromScores

SpecClassify == InitClassify /\ [][NextClassify]_vars

\* ------------------------------------------------------------------------
\* aim/regime/engine.py: calculate_regime_for_date.  Each macro series is
\* known by its length class: "empty", "short" (fewer rows than the
\* calculator needs) or "ok"; merged is the class of the USD x IBOV merge.
\* ------------------------------------------------------------------------
\* the values the proxy calculators yield on enough data
ProxyValues == {-2, 0, 2}

\* lines 106-113, 116-123, 126-134: a calculator is called on a non-empty
\* series and returns None on a short one
SeriesScore(len, v) ==
    IF len = "empty" THEN Num(0) ELSE IF len = "short" THEN None ELSE Num(v)

\* lines 137-146
CapitalFlowScore(m, v) ==
    IF m.usd # "empty" /\ m.ibov # "empty"
    THEN (IF m.merged = "ok" THEN Num(v) ELSE None)
    ELSE Num(0)

\* lines 149-162: with an IBOV series long enough for the trend score the
\* sentiment calculator always has its 21 rows
LiquidityScore(m, v) == IF m.ibov = "ok" THEN Num(v) ELSE Num(0)

EngineScores(m, pv) ==
    [p \in Proxies |->
        CASE p = "yield_curve" -> SeriesScore(m.selic, pv[p])
          [] p = "risk_spread" -> SeriesScore(m.usd, pv[p])
          [] p = "ibov_trend" -> SeriesScore(m.ibov, pv[p])
          [] p = "capital_flow" -> CapitalFlowScore(m, pv[p])
          [] p = "liquidity_sentiment" -> LiquidityScore(m, pv[p])]

\* lines 110, 120, 131, 143: formatting a None score with :.2f raises TypeError
FormatRaises(m, pv) ==
    \E p \in Proxies \ {"liquidity_sentiment"} : EngineScores(m, pv)[p] = None

InitRegime ==
    /\ regime_pc = "start"
    /\ macro \in [selic : {"empty", "short", "ok"},
                  usd : {"empty", "short", "ok"},
                  ibov : {"empty", "short", "ok"},
                  merged : {"short", "ok"}]
    /\ proxy_value \in [Proxies -> ProxyValues]
    /\ scores = NoScores
    /\ regime_data = NoRegimeData
    /\ risk_assessed = {}
    /\ AllocIdle
    /\ RiskIdle
    /\ OtherIdle

CalculateRegimeForDate ==
    /\ regime_pc = "start"
    /\ IF FormatRaises(macro, proxy_value)
       THEN /\ regime_pc' = "raised"
            /\ UNCHANGED <<scores, regime_data>>
       ELSE /\ scores' = EngineScores(macro, proxy_value)
            /\ regime_data' = classify_regime_from_scores(scores')
            /\ regime_pc' = "returned"
    /\ UNCHANGED <<allocVars, riskVars, macro, proxy_value, otherVars>>

NextRegime == CalculateRegimeForDate

SpecRegime == InitRegime /\ [][NextRegime]_vars

\* ------------------------------------------------------------------------
\* aim/scoring/calculator.py: calculate_composite_score. Factor weights are
\* in thousandths, factor scores are whole z-score steps, score_final is in
\* thousandths of a z-score step.
\* ------------------------------------------------------------------------
MaxAssets == 3

\* aim/config/parameters.py lines 35-71
FACTOR_WEIGHTS ==
    [r \in Regimes |->
        CASE r = "RISK_ON_STRONG" ->
                [momentum |-> 400, quality |-> 200, value |-> 150,
                 volatility |-> 150, liquidity |-> 100]
          [] r = "RISK_ON" ->
                [momentum |-> 350, quality |-> 250, value |-> 200,
                 volatility |-> 100, liquidity |-> 100]
          [] r = "TRANSITION" ->
                [momentum |-> 250, quality |-> 300, value |-> 250,
                 volatility |-> 100, liquidity |-> 100]
          [] r = "RISK_OFF" ->
                [momentum |-> 150, quality |-> 350, value |-> 300,
                 volatility |-> 150, liquidity |-> 50]
          [] r = "RISK_OFF_STRONG" ->
                [momentum |-> 0, quality |-> 0, value |-> 0,
                 volatility |-> 0, liquidity |-> 0]]

\* the rows of features_df after lines 229-236: the momentum, volatility and
\* liquidity z-scores of one asset
FeatureRows ==
    {[score_momentum |-> 1, score_volatility |-> -1, score_liquidity |-> 0],
     [score_momentum |-> 0, score_volatility |-> 0, score_liquidity |-> 0],
     [score_momentum |-> -1, score_volatility |-> 1, score_liquidity |-> 1],
     [score_momentum |-> 1, score_volatility |-> 1, score_liquidity |-> -1]}

\* what the fundamentals columns of one asset score to when they carry data
FundamentalValues == {-1, 1}

\* lines 78-111: the mean of the z-scores of the quality columns that carry
\* data; a frame of zeros when roe, net_margin and roic are all absent
calculate_quality_score(f) ==
    [i \in 1..Len(f.rows) |-> IF f.quality_metrics THEN f.rows[i].quality ELSE 0]

\* lines 114-164: the same over p_l, p_vp and dy
calculate_value_score(f) ==
    [i \in 1..Len(f.rows) |-> IF f.value_multiples THEN f.rows[i].value ELSE 0]

\* lines 239-265: both flags are set by the same test of the argument
has_quality(f) == f.supplied

has_value(f) == f.supplied

\* lines 269-291; a key the dict lacks reads as 0 at lines 295-299
effective_weights(w, hq, hv) ==
    IF ~hq /\ ~hv
    THEN [momentum |-> 500, quality |-> 0, value |-> 0,
          volatility |-> 300, liquidity |-> 200]
    ELSE IF ~hq
    THEN [momentum |-> w.momentum + w.quality \div 2, quality |-> 0,
          value |-> w.value + w.quality \div 2,
          volatility |-> w.volatility, liquidity |-> w.liquidity]
    ELSE IF ~hv
    THEN [momentum |-> w.momentum + w.value \div 2,
          quality |-> w.quality + w.value \div 2, value |-> 0,
          volatility |-> w.volatility, liquidity |-> w.liquidity]
    ELSE w

\* line 303: Series.rank(ascending=False) gives every entry the average of the
\* places its tie group occupies, astype(int) drops the fraction
rank_universe(sf) ==
    [i \in 1..Len(sf) |->
        LET above == Cardinality({j \in 1..Len(sf) : sf[j] > sf[i]})
            tied == Cardinality({j \in 1..Len(sf) : sf[j] = sf[i]})
        IN (2 * above + tied + 1) \div 2]

\* lines 204-312
calculate_composite_score(feat, f, r) ==
    LET w == FACTOR_WEIGHTS[r]
        n == Len(feat)
        score_quality == IF f.supplied THEN calculate_quality_score(f)
                         ELSE [i \in 1..n |-> 0]
        score_value == IF f.supplied THEN calculate_value_score(f)
                       ELSE [i \in 1..n |-> 0]
        ew == effective_weights(w, has_quality(f), has_value(f))
        sf == [i \in 1..n |->
                 ew.momentum * feat[i].score_momentum
                 + ew.quality * score_quality[i]
                 + ew.value * score_value[i]
                 + ew.volatility * feat[i].score_volatility
                 + ew.liquidity * feat[i].score_liquidity]
    IN [made |-> TRUE, effective_weights |-> ew, score_quality |-> score_quality,
        score_value |-> score_value, score_final |-> sf,
        rank_universe |-> rank_universe(sf), regime_at_date |-> r]

\* the fundamentals frames a caller can pass for n assets: none, or one row per
\* asset whose quality and value columns carry data or not
FundamentalsFor(n) ==
    {NoFundamentals} \cup
    {f \in [supplied : {TRUE}, quality_metrics : BOOLEAN, value_multiples : BOOLEAN,
            rows : [1..n -> [quality : FundamentalValues \cup {0},
                             value : FundamentalValues \cup {0}]]] :
        \A i \in 1..n :
            /\ (f.rows[i].quality = 0) = ~f.quality_metrics
            /\ (f.rows[i].value = 0) = ~f.value_multiples}

\* a universe of at least two assets (the z-scores of a single asset are all 0)
InitScore ==
    /\ score_pc = "start"
    /\ \E n \in 2..MaxAssets :
          /\ features_df \in [1..n -> FeatureRows]
          /\ fundamentals_df \in FundamentalsFor(n)
    /\ regime_at_date \in Regimes
    /\ results = NoResults
    /\ risk_assessed = {}
    /\ sector_count = NoSectorCount
    /\ ZIdle
    /\ StoreIdle
    /\ SimIdle
    /\ AppIdle
    /\ AllocIdle
    /\ RiskIdle
    /\ RegimeIdle

CalculateCompositeScore ==
    /\ score_pc = "start"
    /\ results' = calculate_composite_score(features_df, fundamentals_df,
                                            regime_at_date)
    /\ score_pc' = "returned"
    /\ UNCHANGED <<allocVars, riskVars, regimeVars, features_df, fundamentals_df,
                   regime_at_date, sector_count, zVars, storeVars, simVars, appVars>>

NextScore == CalculateCompositeScore

SpecScore == InitScore /\ [][NextScore]_vars

\* ------------------------------------------------------------------------
\* build_portfolio_from_scores on a signals table of ten ranked rows whose
\* sector column is an input, n_positions = 10, strategy equal_weight
\* ------------------------------------------------------------------------
TenUniverse ==
    <<"PETR4", "PETR3", "VALE3", "GGBR4", "CSNA3", "USIM5", "ITUB4", "BBDC4",
      "BBAS3", "SANB11">>

\* the sector of row i when the rows are grouped by sector in SectorList order
SectorOfRow(cnt, i) ==
    LET upto(k) == SumSeq([j \in 1..k |-> cnt[j]])
    IN SectorList[CHOOSE k \in 1..Len(SectorList) :
                      upto(k - 1) < i /\ i <= upto(k)]

InitTen ==
    /\ pc = "request"
    /\ regime \in Regimes
    /\ strategy = "equal_weight"
    /\ n_positions = Len(TenUniverse)
    /\ signals = {}
    /\ top_assets = <<>>
    /\ holdings = <<>>
    /\ allocation_note = NoNote
    /\ positive_score_count = 0
    /\ final_total = 0
    /\ iterations = 0
    /\ portfolio_holdings = {}
    /\ response = <<>>
    /\ risk_assessed = {}
    /\ sector_count \in {c \in [1..Len(SectorList) -> 0..Len(TenUniverse)] :
                            SumSeq(c) = Len(TenUniverse)}
    /\ ScoringIdle
    /\ ZIdle
    /\ StoreIdle
    /\ SimIdle
    /\ AppIdle
    /\ RiskIdle
    /\ RegimeIdle

\* engine.py lines 62-124: the ten rows are fetched, all ten are selected and
\* sized by calculate_position_size_equal_weight
SelectAndSizeTen ==
    /\ pc = "request"
    /\ top_assets' = TenUniverse
    /\ holdings' =
          [i \in 1..Len(TenUniverse) |->
              [ticker |-> TenUniverse[i],
               weight |-> calculate_position_size_equal_weight(n_positions, regime),
               sector |-> SectorOfRow(sector_count, i),
               asset_capped |-> FALSE, sector_capped |-> FALSE]]
    /\ pc' = "sized"
    /\ UNCHANGED <<regime, strategy, n_positions, signals, allocation_note,
                   positive_score_count, final_total, iterations, portfolio_holdings,
                   response, risk_assessed, riskVars, regimeVars, otherVars>>

NextTen ==
    \/ SelectAndSizeTen
    \/ ApplyAssetCaps
    \/ ApplySectorCaps
    \/ Normalize
    \/ RedistributeStep
    \/ FinishBuild

SpecTen == InitTen /\ [][NextTen]_vars

\* ------------------------------------------------------------------------
\* aim/scoring/calculator.py: calculate_z_score. The series holds binary
\* floating-point numbers. The model keeps their round-to-nearest-even
\* arithmetic with a significand of SigBits bits (binary64 has 53). The
\* entries lie in one binade; a number is written as an integer count of
\* quarters of that binade's unit in the last place, so that the numbers of
\* the two binades below and of every binade above are integers too.
\* ------------------------------------------------------------------------
SigBits == 5

MaxSeriesLen == 3

RECURSIVE Pow2(_)
Pow2(k) == IF k = 0 THEN 1 ELSE 2 * Pow2(k - 1)

\* the floats of the binade of the inputs
FloatValues == {4 * m : m \in Pow2(SigBits - 1) .. (Pow2(SigBits) - 1)}

\* num/den rounded to the nearest integer, a tie going to the even one
RoundHalfEven(num, den) ==
    LET q == num \div den
        r == num % den
    IN IF 2 * r > den \/ (2 * r = den /\ q % 2 = 1) THEN q + 1 ELSE q

\* the float nearest to the positive real num/den: the spacing of the floats
\* around it is the power of two s that puts num/den/s in [2^(SigBits-1), 2^SigBits)
FlRound(num, den) ==
    IF num = 0 THEN 0
    ELSE LET s == CHOOSE t \in {Pow2(k) : k \in 0 .. (MaxSeriesLen + 4)} :
                      /\ Pow2(SigBits - 1) * t * den <= num
                      /\ num < Pow2(SigBits) * t * den
         IN RoundHalfEven(num, den * s) * s

\* values.sum(): the entries are added one by one, every partial sum is rounded
RECURSIVE FlSum(_)
FlSum(v) ==
    IF v = <<>> THEN 0
    ELSE FlRound(FlSum(SubSeq(v, 1, Len(v) - 1)) + v[Len(v)], 1)

\* line 26, values.mean(): the rounded sum divided by the count
FlMean(v) == FlRound(FlSum(v), Len(v))

\* lines 26-32. values.std() is NaN for fewer than two entries and otherwise
\* sqrt(sum((mean - x)^2) / (n - 1)), which is 0 exactly when every entry
\* equals the computed mean; (x - mean) is exact for entries of one binade.
\* The z-scores returned are in thousandths.
calculate_z_score(v) ==
    LET n == Len(v)
        mean == FlMean(v)
        d == [i \in 1..n |-> v[i] - mean]
        sqsum == SumSeq([i \in 1..n |-> d[i] * d[i]])
        std_is_nan == n < 2
        std_is_zero == ~std_is_nan /\ sqsum = 0
    IN IF std_is_zero \/ std_is_nan
       THEN [i \in 1..n |-> 0]
       ELSE [i \in 1..n |->
                LET z == ISqrt(MulDiv(d[i] * d[i] * (n - 1), 1000 * 1000, sqsum))
                IN IF d[i] < 0 THEN -z ELSE z]

InitZ ==
    /\ z_pc = "start"
    /\ \E n \in 1..MaxSeriesLen : values \in [1..n -> FloatValues]
    /\ z_scores = <<>>
    /\ risk_assessed = {}
    /\ ScoringIdle
    /\ sector_count = NoSectorCount
    /\ StoreIdle
    /\ SimIdle
    /\ AppIdle
    /\ AllocIdle
    /\ RiskIdle
    /\ RegimeIdle

CalculateZScore ==
    /\ z_pc = "start"
    /\ z_scores' = calculate_z_score(values)
    /\ z_pc' = "returned"
    /\ UNCHANGED <<allocVars, riskVars, regimeVars, scoringVars, sector_count, values,
                   storeVars, simVars, appVars>>

NextZ == CalculateZScore

SpecZ == InitZ /\ [][NextZ]_vars

\* ------------------------------------------------------------------------
\* aim/regime/engine.py save_regime_state over aim/data_layer/database.py
\* Database.upsert, called by several processes on one SQLite file
\* ------------------------------------------------------------------------
MaxSaves == 3

\* the regime_data dicts the callers hand over (score_total in whole points)
RegimeDataChoices ==
    {[regime |-> "RISK_ON", score_total |-> 5],
     [regime |-> "RISK_OFF", score_total |-> -5],
     [regime |-> "TRANSITION", score_total |-> 0]}

\* engine.py lines 187-205: the record built from regime_data
BuildRecord(d, data) ==
    [made |-> TRUE, date |-> d, regime |-> data.regime,
     score_total |-> data.score_total]

\* database.py lines 127-152: INSERT ... ON CONFLICT(date) DO UPDATE SET every
\* column of the record (preceded by a faulty conflict clause that updates the
\* regime column only)
upsert_regime_only(table, data, ts) ==
    IF \E r \in table : r.date = data.date
    THEN {IF r.date = data.date THEN [r EXCEPT !.regime = data.regime] ELSE r :
             r \in table}
    ELSE table \cup {[date |-> data.date, regime |-> data.regime,
                      score_total |-> data.score_total, created_at |-> ts]}

upsert(table, data, ts) ==
    IF \E r \in table : r.date = data.date
    THEN {IF r.date = data.date
          THEN [r EXCEPT !.regime = data.regime, !.score_total = data.score_total]
          ELSE r : r \in table}
    ELSE table \cup {[date |-> data.date, regime |-> data.regime,
                      score_total |-> data.score_total, created_at |-> ts]}

InitStore ==
    /\ StoreIdle
    /\ SimIdle
    /\ AppIdle
    /\ risk_assessed = {}
    /\ ScoringIdle
    /\ sector_count = NoSectorCount
    /\ ZIdle
    /\ AllocIdle
    /\ RiskIdle
    /\ RegimeIdle

\* engine.py lines 179-205: a caller enters save_regime_state and builds its record
CallSave(p) ==
    /\ save_pc[p] = "idle"
    /\ now < MaxSaves
    /\ \E d \in Dates, data \in RegimeDataChoices :
          record' = [record EXCEPT ![p] = BuildRecord(d, data)]
    /\ save_pc' = [save_pc EXCEPT ![p] = "built"]
    /\ now' = now + 1
    /\ UNCHANGED <<regime_state, db_writer, last_commit, commits>>

\* database.py line 152, conn.execute: the statement takes SQLite's write lock
ExecuteUpsert(p) ==
    /\ save_pc[p] = "built"
    /\ db_writer = "none"
    /\ db_writer' = p
    /\ save_pc' = [save_pc EXCEPT ![p] = "executed"]
    /\ UNCHANGED <<record, regime_state, last_commit, commits, now>>

\* database.py lines 46-50, conn.commit(): the upserted row becomes the table's
Commit(p) ==
    /\ save_pc[p] = "executed"
    /\ regime_state' = upsert(regime_state, record[p], now)
    /\ last_commit' = [last_commit EXCEPT ![record[p].date] = record[p]]
    /\ commits' = [commits EXCEPT ![record[p].date] = @ + 1]
    /\ db_writer' = "none"
    /\ save_pc' = [save_pc EXCEPT ![p] = "idle"]
    /\ UNCHANGED <<record, now>>

\* database.py lines 51-53: the lock is held by another connection for longer
\* than the busy timeout, conn.execute raises, the call ends without a commit
Locked(p) ==
    /\ save_pc[p] = "built"
    /\ db_writer \notin {"none", p}
    /\ save_pc' = [save_pc EXCEPT ![p] = "idle"]
    /\ UNCHANGED <<record, regime_state, db_writer, last_commit, commits, now>>

NextStore ==
    \E p \in Savers :
        /\ \/ CallSave(p)
           \/ ExecuteUpsert(p)
           \/ Commit(p)
           \/ Locked(p)
        /\ UNCHANGED <<allocVars, riskVars, regimeVars, scoringVars, sector_count, zVars,
                       simVars, appVars>>

SpecStore == InitStore /\ [][NextStore]_vars

\* ------------------------------------------------------------------------
\* api/routers/simulation.py: GET /simulation/positions
\* ------------------------------------------------------------------------
MaxRows == 3

Users == {1, 2}

Tenants == {1, 2}

\* the rows a positions table can hold; UNIQUE(user_id, tenant_id, ticker)
PositionRows == [user_id : Users, tenant_id : Tenants, ticker : {"WEGE3", "SANB11"}]

quantity(t) == IF t = "WEGE3" THEN 3 ELSE 5

\* lines 477-480: SELECT * FROM table WHERE user_id = ? AND tenant_id = ?
\* (preceded by a faulty variant of the query that forgets the tenant)
fetch_positions_by_user(table, user_id, tenant_id) ==
    {r \in table : r.user_id = user_id}

fetch_positions(table, user_id, tenant_id) ==
    {r \in table : r.user_id = user_id /\ r.tenant_id = tenant_id}

\* lines 494-504: the item built from one row (prices are not modelled, the
\* price and profit fields are left out)
PositionResponse(pos) == [ticker |-> pos.ticker, quantity |-> quantity(pos.ticker)]

InitPositions ==
    /\ sim_pc = "request"
    /\ current_user \in [user_id : Users, tenant_id : Tenants]
    /\ is_real \in BOOLEAN
    /\ real_allowed \in SUBSET Tenants
    /\ simulated_positions \in {t \in SUBSET PositionRows : Cardinality(t) <= MaxRows}
    /\ real_positions \in
          {t \in SUBSET {r \in PositionRows : r.ticker = "WEGE3"} :
              Cardinality(t) <= MaxRows}
    /\ positions = {}
    /\ sim_response = {}
    /\ AppIdle
    /\ risk_assessed = {}
    /\ ScoringIdle
    /\ sector_count = NoSectorCount
    /\ ZIdle
    /\ StoreIdle
    /\ AllocIdle
    /\ RiskIdle
    /\ RegimeIdle

\* lines 460-507
GetPositions ==
    /\ sim_pc = "request"
    /\ LET user_id == current_user.user_id
           tenant_id == current_user.tenant_id
           table_positions == IF is_real THEN real_positions ELSE simulated_positions
       IN IF is_real /\ tenant_id \notin real_allowed
          THEN /\ sim_pc' = "http_403"
               /\ UNCHANGED <<positions, sim_response>>
          ELSE /\ positions' = fetch_positions(table_positions, user_id, tenant_id)
               /\ sim_response' = {PositionResponse(pos) : pos \in positions'}
               /\ sim_pc' = "returned"
    /\ UNCHANGED <<allocVars, riskVars, regimeVars, scoringVars, sector_count, zVars,
                   storeVars, current_user, is_real, real_allowed,
                   simulated_positions, real_positions, appVars>>

NextPositions == GetPositions

SpecPositions == InitPositions /\ [][NextPositions]_vars

\* ------------------------------------------------------------------------
\* build_portfolio_from_scores over the default universe: the signals table
\* holds the ranked rows of DEFAULT_UNIVERSE, the request asks for
\* n_positions of them, strategy equal_weight
\* ------------------------------------------------------------------------
\* largest n_positions of a request
MaxCandidates == 27

DEFAULT_UNIVERSE ==
    <<"PETR4", "PETR3", "VALE3", "GGBR4", "CSNA3", "USIM5", "ITUB4", "BBDC4",
      "BBAS3", "SANB11", "BPAC11", "MGLU3", "LREN3", "ABEV3", "RAIZ4", "ELET3",
      "ELET6", "EGIE3", "CPFE3", "ENGI11", "WEGE3", "JBSS3", "RENT3", "B3SA3",
      "SUZB3", "RAIL3", "VBBR3", "PRIO3", "BBSE3", "ITSA4", "BRFS3", "CCRO3",
      "RDOR3", "HAPV3", "EQTL3", "TOTS3", "FLRY3", "KLBN11", "SBSP3", "CMIG4">>

\* the sector columns tried for n rows: all rows in one sector, or the rows
\* split in two halves over two sectors
SectorSplits(n) ==
    {c \in [1..Len(SectorList) -> {0, n \div 2, n - (n \div 2), n}] : SumSeq(c) = n}

InitWide ==
    /\ pc = "request"
    /\ regime \in Regimes
    /\ strategy = "equal_weight"
    /\ n_positions \in 1..Min(MaxCandidates, Len(DEFAULT_UNIVERSE))
    /\ signals = {}
    /\ top_assets = <<>>
    /\ holdings = <<>>
    /\ allocation_note = NoNote
    /\ positive_score_count = 0
    /\ final_total = 0
    /\ iterations = 0
    /\ portfolio_holdings = {}
    /\ response = <<>>
    /\ risk_assessed = {}
    /\ sector_count \in SectorSplits(n_positions)
    /\ ScoringIdle
    /\ ZIdle
    /\ StoreIdle
    /\ SimIdle
    /\ AppIdle
    /\ RiskIdle
    /\ RegimeIdle

\* engine.py lines 62-124: the rows are fetched, the first n_positions are
\* selected and sized by calculate_position_size_equal_weight
SelectAndSizeWide ==
    /\ pc = "request"
    /\ top_assets' = HeadN(DEFAULT_UNIVERSE, n_positions)
    /\ holdings' =
          [i \in 1..n_positions |->
              [ticker |-> DEFAULT_UNIVERSE[i],
               weight |-> calculate_position_size_equal_weight(n_positions, regime),
               sector |-> SectorOfRow(sector_count, i),
               asset_capped |-> FALSE, sector_capped |-> FALSE]]
    /\ pc' = "sized"
    /\ UNCHANGED <<regime, strategy, n_positions, signals, allocation_note,
                   positive_score_count, final_total, iterations, portfolio_holdings,
                   response, risk_assessed, riskVars, regimeVars, otherVars>>

NextWide ==
    \/ SelectAndSizeWide
    \/ ApplyAssetCaps
    \/ ApplySectorCaps
    \/ Normalize
    \/ RedistributeStep
    \/ FinishBuild

SpecWide == InitWide /\ [][NextWide]_vars

\* ------------------------------------------------------------------------
\* api/routers/simulation.py: POST /simulation/order.  A handler runs without
\* yielding and its writes go through one transaction, so a request is one
\* step.  Orders carry no price: the latest close of the ticker is used.
\* ------------------------------------------------------------------------
\* largest number of order requests of a run
MaxRequests == 3

\* tickers of the requests; EXTR1 has no row in prices
RequestTickers == {"WEGE3", "SANB11", "EXTR1"}

\* SELECT close FROM prices WHERE ticker = ? ORDER BY date DESC LIMIT 1
close == [t \in {"WEGE3", "SANB11"} |-> IF t = "WEGE3" THEN 80 ELSE 36]

OrderTypes == {"BUY", "SELL", "HOLD"}

Quantities == {0, 1, 2}

\* the users table, as the integration tests seed it: user 1 belongs to
\* tenant 1, user 2 to tenant 2
users == [id \in Users |-> [tenant_id |-> id]]

\* aim/auth/manager.py verify_token: the tenant of a request is the tenant_id
\* of the caller's users row
get_current_user(id) == [user_id |-> id, tenant_id |-> users[id].tenant_id]

\* get_tenant_capabilities: the plan of tenant 1 allows one simulated
\* position, the plan of tenant 2 allows two
get_tenant_capabilities(tenant_id) ==
    [limits |-> [max_simulated_positions |-> tenant_id],
     features |-> [allow_real_portfolio |-> tenant_id \in real_allowed]]

\* SELECT * FROM table WHERE user_id = ? AND tenant_id = ? AND ticker = ?
select_position(table, user_id, tenant_id, ticker) ==
    {r \in table : r.user_id = user_id /\ r.tenant_id = tenant_id /\ r.ticker = ticker}

\* SELECT * FROM table WHERE user_id = ? AND ticker = ? (LIMIT 1 takes one)
select_legacy_position(table, user_id, ticker) ==
    {r \in table : r.user_id = user_id /\ r.ticker = ticker}

\* SELECT COUNT(*) FROM simulated_positions WHERE user_id = ? AND tenant_id = ?
current_positions_count(table, user_id, tenant_id) ==
    Cardinality({r \in table : r.user_id = user_id /\ r.tenant_id = tenant_id})

\* lines 354-380: the plan limit is reached (preceded by a faulty variant
\* that never compares the count against the limit)
limit_never_reached(count, max_positions) == FALSE

limit_reached(count, max_positions) == count >= max_positions

\* lines 342-352: UPDATE ... SET quantity, avg_price, total_cost
\* WHERE user_id = ? AND ticker = ?
update_bought(table, user_id, ticker, pos, qty, price) ==
    LET new_qty == pos.quantity + qty
        new_cost == pos.total_cost + qty * price
    IN {IF r.user_id = user_id /\ r.ticker = ticker
        THEN [r EXCEPT !.quantity = new_qty, !.avg_price = new_cost \div new_qty,
                       !.total_cost = new_cost]
        ELSE r : r \in table}

\* lines 381-388: INSERT INTO table (user_id, tenant_id, ticker, ...)
insert_position(table, user_id, tenant_id, ticker, qty, price) ==
    table \cup {[user_id |-> user_id, tenant_id |-> tenant_id, ticker |-> ticker,
                 quantity |-> qty, avg_price |-> price, total_cost |-> qty * price]}

\* lines 410-429: DELETE or UPDATE ... WHERE user_id = ? AND tenant_id = ? AND ticker = ?
\* (preceded by a faulty variant that updates the row also when nothing is left)
update_sold_keeping_row(table, user_id, tenant_id, ticker, pos, qty) ==
    LET new_qty == pos.quantity - qty
        hit(r) == r.user_id = user_id /\ r.tenant_id = tenant_id /\ r.ticker = ticker
    IN {IF hit(r)
        THEN [r EXCEPT !.quantity = new_qty, !.total_cost = new_qty * pos.avg_price]
        ELSE r : r \in table}

update_sold(table, user_id, tenant_id, ticker, pos, qty) ==
    LET new_qty == pos.quantity - qty
        hit(r) == r.user_id = user_id /\ r.tenant_id = tenant_id /\ r.ticker = ticker
    IN IF new_qty = 0
       THEN {r \in table : ~hit(r)}
       ELSE {IF hit(r)
             THEN [r EXCEPT !.quantity = new_qty, !.total_cost = new_qty * pos.avg_price]
             ELSE r : r \in table}

OrderRow(user_id, tenant_id, ticker, order_type, qty, price) ==
    [user_id |-> user_id, tenant_id |-> tenant_id, ticker |-> ticker,
     order_type |-> order_type, quantity |-> qty, price_at_order |-> price]

\* the outcomes of create_order on the tables of the chosen wallet: the HTTP
\* status, and the tables the transaction commits (or leaves, when it rolls
\* back).  No row has a NULL tenant_id, so the tenant rewrite of lines 329-340
\* and COALESCE(tenant_id, ?) change nothing; the UNIQUE key is the one of the
\* schema, so the INSERT of line 382 cannot fail (lines 389-409).
create_order(orders, table, user_id, tenant_id, ticker, order_type, qty, real) ==
    LET capabilities == get_tenant_capabilities(tenant_id)
        rejected(code) == {[status |-> code, orders |-> orders, positions |-> table]}
        price == close[ticker]
        recorded == Append(orders,
                           OrderRow(user_id, tenant_id, ticker, order_type, qty, price))
        own == select_position(table, user_id, tenant_id, ticker)
        found == IF own # {} THEN own
                 ELSE IF order_type = "BUY"
                      THEN select_legacy_position(table, user_id, ticker)
                      ELSE {}
    IN IF real /\ ~capabilities.features.allow_real_portfolio THEN rejected("http_403")
       ELSE IF order_type \notin {"BUY", "SELL"} THEN rejected("http_400")
       ELSE IF qty <= 0 THEN rejected("http_400")
       ELSE IF ticker \notin DOMAIN close THEN rejected("http_400")
       ELSE IF order_type = "BUY"
       THEN IF found # {}
            THEN {[status |-> "success", orders |-> recorded,
                   positions |-> update_bought(table, user_id, ticker, pos, qty, price)] :
                     pos \in found}
            ELSE IF ~real /\ limit_reached(
                        current_positions_count(simulated_positions, user_id, tenant_id),
                        capabilities.limits.max_simulated_positions)
                 THEN rejected("http_403")
                 ELSE {[status |-> "success", orders |-> recorded,
                        positions |-> insert_position(table, user_id, tenant_id,
                                                      ticker, qty, price)]}
       ELSE IF found = {} \/ \E pos \in found : pos.quantity < qty
            THEN rejected("http_400")
            ELSE {[status |-> "success", orders |-> recorded,
                   positions |-> update_sold(table, user_id, tenant_id, ticker, pos, qty)] :
                     pos \in found}

Tables ==
    [simulated_positions |-> simulated_positions, real_positions |-> real_positions,
     simulated_orders |-> simulated_orders, real_orders |-> real_orders]

\* the tables are empty: every row is one that create_order wrote, with the
\* tenant of its caller
InitOrders ==
    /\ sim_pc = "ready"
    /\ current_user \in {get_current_user(id) : id \in Users}
    /\ is_real = FALSE
    /\ real_allowed \in {{}, {2}}
    /\ simulated_positions = {}
    /\ real_positions = {}
    /\ positions = {}
    /\ sim_response = {}
    /\ OrderIdle
    /\ RequestIdle
    /\ LibIdle
    /\ risk_assessed = {}
    /\ ScoringIdle
    /\ sector_count = NoSectorCount
    /\ ZIdle
    /\ StoreIdle
    /\ AllocIdle
    /\ RiskIdle
    /\ RegimeIdle

\* lines 258-440: one POST /simulation/order of the authenticated user
CreateOrder ==
    /\ n_requests < MaxRequests
    /\ \E user \in {get_current_user(id) : id \in Users}, ticker \in RequestTickers,
          order_type \in OrderTypes, qty \in Quantities, real \in BOOLEAN :
          \E out \in create_order(IF real THEN real_orders ELSE simulated_orders,
                                  IF real THEN real_positions ELSE simulated_positions,
                                  user.user_id, user.tenant_id, ticker, order_type,
                                  qty, real) :
             /\ current_user' = user
             /\ order' = [ticker |-> ticker, order_type |-> order_type,
                          quantity |-> qty, is_real |-> real]
             /\ is_real' = real
             /\ sim_pc' = out.status
             /\ tables_before' = Tables
             /\ IF real
                THEN /\ real_orders' = out.orders
                     /\ real_positions' = out.positions
                     /\ UNCHANGED <<simulated_orders, simulated_positions>>
                ELSE /\ simulated_orders' = out.orders
                     /\ simulated_positions' = out.positions
                     /\ UNCHANGED <<real_orders, real_positions>>
    /\ n_requests' = n_requests + 1
    /\ UNCHANGED <<allocVars, riskVars, regimeVars, scoringVars, sector_count, zVars,
                   storeVars, real_allowed, positions, sim_response, requestVars,
                   libVars>>

NextOrders == CreateOrder

\* the position rows of a database that was in use before the tables had a
\* tenant_id column (ALTER TABLE ... ADD COLUMN tenant_id INTEGER DEFAULT 1,
\* lines 214-216, gives every old row tenant 1), or whose user has since been
\* moved to another tenant: the tenant of a row need not be its user's
LegacyRows ==
    {[user_id |-> u, tenant_id |-> t, ticker |-> x, quantity |-> q,
      avg_price |-> close[x], total_cost |-> q * close[x]] :
        u \in Users, t \in Tenants, x \in DOMAIN close, q \in {2}}

SameKey(r1, r2) ==
    r1.user_id = r2.user_id /\ r1.tenant_id = r2.tenant_id /\ r1.ticker = r2.ticker

\* tables that satisfy UNIQUE(user_id, tenant_id, ticker)
LegacyTables ==
    {t \in SUBSET LegacyRows :
        /\ Cardinality(t) <= 2
        /\ \A r1, r2 \in t : SameKey(r1, r2) => r1 = r2}

InitLegacyOrders ==
    /\ sim_pc = "ready"
    /\ current_user \in {get_current_user(id) : id \in Users}
    /\ is_real = FALSE
    /\ real_allowed = {}
    /\ simulated_positions \in LegacyTables
    /\ real_positions = {}
    /\ positions = {}
    /\ sim_response = {}
    /\ simulated_orders = <<>>
    /\ real_orders = <<>>
    /\ tables_before = NoTables
    /\ order = NoOrder
    /\ n_requests = 0
    /\ RequestIdle
    /\ LibIdle
    /\ risk_assessed = {}
    /\ ScoringIdle
    /\ sector_count = NoSectorCount
    /\ ZIdle
    /\ StoreIdle
    /\ AllocIdle
    /\ RiskIdle
    /\ RegimeIdle

SpecLegacyOrders == InitLegacyOrders /\ [][NextOrders]_vars

SpecOrders == InitOrders /\ [][NextOrders]_vars

\* ------------------------------------------------------------------------
\* api/routers/recommendation.py: POST /recommendation/asset-request.  A
\* character of a prompt is its base letter, whether it is upper case and
\* whether it carries a diacritic; timestamps are whole days.
\* ------------------------------------------------------------------------
\* largest number of rows of pending_asset_requests
MaxAssetRequests == 2

\* datetime('now', '-7 day'): the age up to which a request counts as recent
RecentDays == 7

\* last day of the clock
MaxDays == RecentDays + 1

Ch(b, u, m) == [base |-> b, upper |-> u, mark |-> m]

\* "acao", "Ação", "vale", " ab "
Prompts ==
    { <<Ch("a", FALSE, FALSE), Ch("c", FALSE, FALSE), Ch("a", FALSE, FALSE),
        Ch("o", FALSE, FALSE)>>,
      <<Ch("a", TRUE, FALSE), Ch("c", FALSE, TRUE), Ch("a", FALSE, TRUE),
        Ch("o", FALSE, FALSE)>>,
      <<Ch("v", FALSE, FALSE), Ch("a", FALSE, FALSE), Ch("l", FALSE, FALSE),
        Ch("e", FALSE, FALSE)>>,
      <<Ch(" ", FALSE, FALSE), Ch("a", FALSE, FALSE), Ch("b", FALSE, FALSE),
        Ch(" ", FALSE, FALSE)>> }

\* str.lower()
lower(text) == [i \in 1..Len(text) |-> [text[i] EXCEPT !.upper = FALSE]]

\* NFKD decomposition, then the combining characters are dropped
strip_combining(text) == [i \in 1..Len(text) |-> [text[i] EXCEPT !.mark = FALSE]]

\* _normalize_prompt (preceded by a faulty variant that only lower-cases)
normalize_case_only(text) == lower(text)

normalize_prompt(text) == strip_combining(lower(text))

\* str.strip()
RECURSIVE strip(_)
strip(text) ==
    IF text = <<>> THEN text
    ELSE IF Head(text).base = " " THEN strip(Tail(text))
    ELSE IF text[Len(text)].base = " " THEN strip(SubSeq(text, 1, Len(text) - 1))
    ELSE text

\* lines 750-761: the ids of the rows the SELECT can return, i.e. the latest
\* of the rows with this normalized prompt, status PENDING or APPROVED and
\* created_at >= datetime('now', '-7 day')
existing_request(table, normalized_prompt, now_) ==
    LET hits == {i \in 1..Len(table) :
                    /\ table[i].normalized_prompt = normalized_prompt
                    /\ table[i].status \in {"PENDING", "APPROVED"}
                    /\ table[i].created_at >= now_ - RecentDays}
    IN {i \in hits : \A j \in hits : table[j].created_at <= table[i].created_at}

InitRequests ==
    /\ pending_asset_requests = <<>>
    /\ clock = 0
    /\ rq_pc = "idle"
    /\ rq_prompt = <<>>
    /\ rq_response = NoResponse
    /\ OrderIdle
    /\ LibIdle
    /\ SimIdle
    /\ risk_assessed = {}
    /\ ScoringIdle
    /\ sector_count = NoSectorCount
    /\ ZIdle
    /\ StoreIdle
    /\ AllocIdle
    /\ RiskIdle
    /\ RegimeIdle

\* lines 739-778 (a full table takes no further row)
CreateAssetRequest ==
    /\ \E prompt \in Prompts :
          LET normalized_prompt == normalize_prompt(prompt)
              existing == existing_request(pending_asset_requests, normalized_prompt, clock)
          IN /\ \/ Len(pending_asset_requests) < MaxAssetRequests
                \/ Len(strip(normalized_prompt)) < 3
                \/ existing # {}
             /\ rq_prompt' = prompt
             /\ IF Len(strip(normalized_prompt)) < 3
                THEN /\ rq_pc' = "http_400"
                     /\ rq_response' = NoResponse
                     /\ UNCHANGED pending_asset_requests
                ELSE IF existing # {}
                THEN /\ rq_pc' = "responded"
                     /\ \E i \in existing :
                           rq_response' = [status |-> "already_requested", request_id |-> i]
                     /\ UNCHANGED pending_asset_requests
                ELSE /\ rq_pc' = "responded"
                     /\ pending_asset_requests' =
                           Append(pending_asset_requests,
                                  [raw_prompt |-> prompt,
                                   normalized_prompt |-> normalized_prompt,
                                   status |-> "PENDING", created_at |-> clock])
                     /\ rq_response' = [status |-> "created",
                                        request_id |-> Len(pending_asset_requests) + 1]
    /\ UNCHANGED <<allocVars, riskVars, regimeVars, scoringVars, sector_count, zVars,
                   storeVars, simVars, orderVars, libVars, clock>>

\* the status column: a reviewer approves or rejects a pending request
ReviewRequest ==
    /\ \E i \in 1..Len(pending_asset_requests), st \in {"APPROVED", "REJECTED"} :
          /\ pending_asset_requests[i].status = "PENDING"
          /\ pending_asset_requests' =
                [pending_asset_requests EXCEPT ![i].status = st]
    /\ rq_pc' = "idle"
    /\ rq_prompt' = <<>>
    /\ rq_response' = NoResponse
    /\ UNCHANGED <<allocVars, riskVars, regimeVars, scoringVars, sector_count, zVars,
                   storeVars, simVars, orderVars, libVars, clock>>

\* a day passes
Tick ==
    /\ clock < MaxDays
    /\ clock' = clock + 1
    /\ rq_pc' = "idle"
    /\ rq_prompt' = <<>>
    /\ rq_response' = NoResponse
    /\ UNCHANGED <<allocVars, riskVars, regimeVars, scoringVars, sector_count, zVars,
                   storeVars, simVars, orderVars, libVars,
                   pending_asset_requests>>

NextRequests ==
    \/ CreateAssetRequest
    \/ ReviewRequest
    \/ Tick

SpecRequests == InitRequests /\ [][NextRequests]_vars

\* ------------------------------------------------------------------------
\* parse_intent (aim/intent/parser.py): the module-level IntentParser of line
\* 463 and every other instance read the one class attribute PARAMETER_MAP.
\* A prompt is the set of its words.

\* largest number of parse_intent calls of one process
MaxParses == 3

\* the keywords of lines 68-130 a word contains as substrings
Substrings(word) ==
    CASE word = "anos" -> {"anos", "ano"}
      [] word = "dias" -> {"dias", "dia"}
      [] OTHER -> {word}

\* keyword in prompt
Contains(prompt, keyword) == \E word \in prompt : keyword \in Substrings(word)

\* lines 68-92, 94-110, 112-130, cut down to the keywords the prompts can hold
OBJECTIVE_KEYWORDS ==
    [return |-> {"retorno"}, protection |-> {"proteger", "conservador"},
     income |-> {"renda"}, speculation |-> {}, balanced |-> {"moderado"}]

HORIZON_KEYWORDS ==
    [short_term |-> {"dias", "dia"}, medium_term |-> {},
     long_term |-> {"anos", "ano"}]

RISK_KEYWORDS ==
    [conservative |-> {"conservador"}, moderate |-> {"moderado"},
     aggressive |-> {"agressivo"}, speculative |-> {}]

\* the members of the three Enums, in declaration order (lines 9-31)
ObjectiveType == <<"return", "protection", "income", "speculation", "balanced">>

InvestmentHorizon == <<"short_term", "medium_term", "long_term">>

RiskTolerance == <<"conservative", "moderate", "aggressive", "speculative">>

\* scores[member] of lines 290-295, 305-310, 337-342
KeywordScore(keywords, prompt) ==
    Cardinality({k \in keywords : Contains(prompt, k)})

\* max(scores, key=scores.get): the first member, in declaration order, that
\* has the largest score
FirstMax(members, table, prompt) ==
    LET score(i) == KeywordScore(table[members[i]], prompt)
        best == CHOOSE i \in 1..Len(members) :
                    /\ \A j \in 1..Len(members) : score(j) <= score(i)
                    /\ \A j \in 1..(i - 1) : score(j) < score(i)
    IN members[best]

AnyKeyword(table, members, prompt) ==
    \E i \in 1..Len(members) : KeywordScore(table[members[i]], prompt) > 0

\* lines 288-301
detect_objective(prompt) ==
    IF ~AnyKeyword(OBJECTIVE_KEYWORDS, ObjectiveType, prompt) THEN "return"
    ELSE FirstMax(ObjectiveType, OBJECTIVE_KEYWORDS, prompt)

\* lines 303-329; the prompts hold no digits, so no pattern of 313-322 matches
detect_horizon(prompt) ==
    IF ~AnyKeyword(HORIZON_KEYWORDS, InvestmentHorizon, prompt) THEN "medium_term"
    ELSE FirstMax(InvestmentHorizon, HORIZON_KEYWORDS, prompt)

\* lines 346-355
risk_by_objective ==
    [return |-> "aggressive", protection |-> "conservative", income |-> "moderate",
     speculation |-> "speculative", balanced |-> "moderate"]

\* lines 331-357
detect_risk_tolerance(prompt, objective) ==
    IF AnyKeyword(RISK_KEYWORDS, RiskTolerance, prompt)
    THEN FirstMax(RiskTolerance, RISK_KEYWORDS, prompt)
    ELSE risk_by_objective[objective]

\* lines 396-401, in tenths
volatility_adjustments ==
    [conservative |-> 7, moderate |-> 10, aggressive |-> 13, speculative |-> 16]

\* lines 379-407: dict.copy() copies the dict, not the list under
\* 'priority_factors'; max_volatility and max_drawdown come back in thousandths
get_parameters(map, objective, horizon, risk_tolerance) ==
    LET key == IF <<objective, horizon>> \in DOMAIN map
               THEN <<objective, horizon>>
               ELSE <<"balanced", "medium_term">>
        adjustment == volatility_adjustments[risk_tolerance]
    IN [key |-> key,
        params |-> [map[key] EXCEPT
            !.max_volatility = Min(500, map[key].max_volatility * adjustment),
            !.max_drawdown = Min(400, map[key].max_drawdown * adjustment)]]

\* list.insert(0, x)
insert_first(list, x) == <<x>> \o list

\* list.remove(x): the first occurrence goes
remove(list, x) ==
    LET i == CHOOSE k \in 1..Len(list) :
                 list[k] = x /\ \A j \in 1..(k - 1) : list[j] # x
    IN SubSeq(list, 1, i - 1) \o SubSeq(list, i + 1, Len(list))

\* lines 409-429, on the list object params['priority_factors'] refers to
adjust_by_risk_tolerance(factors, risk_tolerance) ==
    IF risk_tolerance = "conservative"
    THEN IF \E i \in 1..Len(factors) : factors[i] = "quality"
         THEN factors
         ELSE insert_first(factors, "quality")
    ELSE IF risk_tolerance = "aggressive"
    THEN insert_first(
            IF \E i \in 1..Len(factors) : factors[i] = "momentum"
            THEN remove(factors, "momentum") ELSE factors,
            "momentum")
    ELSE factors

\* lines 262-268
regime_map ==
    [conservative |-> "RISK_OFF", moderate |-> "TRANSITION",
     aggressive |-> "RISK_ON", speculative |-> "RISK_ON_STRONG"]

\* lines 431-459, in tenths
calculate_confidence(prompt, objective, horizon, risk_tolerance) ==
    Min(10, 5 + (IF KeywordScore(OBJECTIVE_KEYWORDS[objective], prompt) > 0
                 THEN 2 ELSE 0)
              + (IF KeywordScore(HORIZON_KEYWORDS[horizon], prompt) > 0
                 THEN 2 ELSE 0)
              + (IF KeywordScore(RISK_KEYWORDS[risk_tolerance], prompt) > 0
                 THEN 1 ELSE 0))

\* lines 227-286: the intent returned and PARAMETER_MAP as the call leaves it.
\* The list adjusted at line 253 is the one PARAMETER_MAP[key] holds.
parse(map, prompt) ==
    LET objective == detect_objective(prompt)
        horizon == detect_horizon(prompt)
        risk_tolerance == detect_risk_tolerance(prompt, objective)
        got == get_parameters(map, objective, horizon, risk_tolerance)
        factors == adjust_by_risk_tolerance(got.params.priority_factors,
                                            risk_tolerance)
    IN [intent |->
            [objective |-> objective, horizon |-> horizon,
             risk_tolerance |-> risk_tolerance,
             user_regime |-> regime_map[risk_tolerance],
             max_volatility |-> got.params.max_volatility,
             max_drawdown |-> got.params.max_drawdown,
             target_return |-> None,
             priority_factors |-> factors,
             min_liquidity |-> got.params.min_liquidity,
             max_concentration |-> got.params.max_concentration,
             use_stop_loss |-> got.params.use_stop_loss,
             rebalance_frequency |-> got.params.rebalance_frequency,
             raw_prompt |-> prompt,
             confidence |-> calculate_confidence(prompt, objective, horizon,
                                                 risk_tolerance)],
        map |-> [map EXCEPT ![got.key].priority_factors = factors]]

\* "retorno anos", "retorno anos moderado", "retorno dias conservador",
\* "retorno dias moderado", "proteger", "renda anos agressivo", "renda dias"
IntentPrompts ==
    { {"retorno", "anos"}, {"retorno", "anos", "moderado"},
      {"retorno", "dias", "conservador"}, {"retorno", "dias", "moderado"},
      {"proteger"}, {"renda", "anos", "agressivo"}, {"renda", "dias"} }

InitIntent ==
    /\ IntentIdle
    /\ SignalIdle
    /\ OrderIdle
    /\ RequestIdle
    /\ SimIdle
    /\ risk_assessed = {}
    /\ ScoringIdle
    /\ sector_count = NoSectorCount
    /\ ZIdle
    /\ StoreIdle
    /\ AllocIdle
    /\ RiskIdle
    /\ RegimeIdle

\* parse_intent(prompt), lines 466-468
ParseIntent ==
    /\ Len(parsed) < MaxParses
    /\ \E prompt \in IntentPrompts :
          LET out == parse(parameter_map, prompt)
          IN /\ intent_out' = out.intent
             /\ parameter_map' = out.map
             /\ parsed' = Append(parsed, prompt)
    /\ UNCHANGED <<allocVars, riskVars, regimeVars, scoringVars, sector_count, zVars,
                   storeVars, simVars, orderVars, requestVars, signalVars>>

NextIntent == ParseIntent

SpecIntent == InitIntent /\ [][NextIntent]_vars

\* ------------------------------------------------------------------------
\* save_scores_to_database (aim/scoring/engine.py lines 140-178) on the rows
\* of table signals of one date, and the ranking read back from them

\* largest number of scoring runs saved for the date
MaxScoreRuns == 2

\* the tickers a scoring run can cover, in the order of the features frame
SignalTickers == <<"ITUB4", "PETR4", "VALE3">>

\* the values score_final takes
FinalScores == {1, 2, 3}

\* the frames calculate_composite_score returns for the date: a row for each
\* asset of the run's universe, score_final, and rank_universe as line 303 of
\* aim/scoring/calculator.py computes it from the score_final column
ScoreFrames ==
    UNION {
        {[i \in 1..Len(universe) |->
            [ticker |-> universe[i], score_final |-> sf[i],
             rank_universe |-> rank_universe(sf)[i]]] :
                sf \in [1..Len(universe) -> FinalScores]} :
        universe \in {SelectSeq2(SignalTickers, keep) :
                        keep \in (SUBSET {SignalTickers[i] : i \in 1..Len(SignalTickers)})
                                    \ {{}}}}

\* db.upsert("signals", record, conflict_columns=["date", "ticker"]), lines
\* 171-175 and aim/data_layer/database.py 127-152: the row of the ticker is
\* inserted or overwritten, every other row stays
upsert_signal(table, row) ==
    [t \in DOMAIN table \cup {row.ticker} |->
        IF t = row.ticker
        THEN [score_final |-> row.score_final, rank_universe |-> row.rank_universe]
        ELSE table[t]]

RECURSIVE save_scores_to_database(_, _, _)

\* lines 163-175: the rows of the frame are upserted one after another
save_scores_to_database(table, frame, k) ==
    IF k = 0 THEN table
    ELSE upsert_signal(save_scores_to_database(table, frame, k - 1), frame[k])

InitSignals ==
    /\ SignalIdle
    /\ IntentIdle
    /\ OrderIdle
    /\ RequestIdle
    /\ SimIdle
    /\ risk_assessed = {}
    /\ ScoringIdle
    /\ sector_count = NoSectorCount
    /\ ZIdle
    /\ StoreIdle
    /\ AllocIdle
    /\ RiskIdle
    /\ RegimeIdle

\* one scoring run for the date: generate_daily_signals saves the frame it
\* computed
SaveScores ==
    /\ n_saves < MaxScoreRuns
    /\ \E frame \in ScoreFrames :
          /\ scores_df' = frame
          /\ signal_rows' = save_scores_to_database(signal_rows, frame, Len(frame))
    /\ n_saves' = n_saves + 1
    /\ UNCHANGED <<allocVars, riskVars, regimeVars, scoringVars, sector_count, zVars,
                   storeVars, simVars, orderVars, requestVars, intentVars>>

NextSignals == SaveScores

SpecSignals == InitSignals /\ [][NextSignals]_vars

\* ------------------------------------------------------------------------
\* Claims on the allocation engine
\* ------------------------------------------------------------------------

\* C1: every holding returned by build_portfolio_from_scores has
\* weight <= MAX_ASSET_EXPOSURE_BY_REGIME[regime] + 1e-6, on the final weights.
C1_AssetCapOnFinalWeights ==
    (Built /\ ContractCall) =>
        \A i \in 1..Len(holdings) :
            holdings[i].weight <= MAX_ASSET_EXPOSURE_BY_REGIME[regime] + Micro

\* C2: after a non-empty holding list is returned, the weights sum to the
\* target within 0.001 or allocation_note is non-empty.
C2_ConservationOrNote ==
    (Built /\ ContractCall) =>
        \/ Abs(TotalWeight(holdings) - TARGET_RV_ALLOCATION[regime]) <= Milli
        \/ allocation_note # NoNote

\* C3: the redistribution loop never completes more than 20 iterations and
\* terminates: once 20 iterations have run the loop condition is false, so
\* the only step left is the one that leaves the loop.
C3_LoopTerminatesWithin20 ==
    /\ iterations <= max_iterations
    /\ (pc = "loop" /\ iterations = max_iterations)
          => ~LoopCondition(final_total, regime, iterations)

\* C3 witness: the loop ran to its cap on an input whose uncapped holdings
\* all weigh 0, and the function returned.
C3_Witness ==
    /\ pc = "built"
    /\ iterations = max_iterations
    /\ Uncapped(holdings, regime) # {}
    /\ \A i \in Uncapped(holdings, regime) : holdings[i].weight = 0

\* C4: on the returned holdings every sector's summed weight is
\* <= MAX_SECTOR_EXPOSURE_BY_REGIME[regime] + 1e-6, unless the note reports
\* that the target was unreachable.
C4_SectorCapOnFinalWeights ==
    (Built /\ ContractCall) =>
        \/ \A s \in Sectors :
              SectorExposure(holdings, s)
                  <= MAX_SECTOR_EXPOSURE_BY_REGIME[regime] + Micro
        \/ allocation_note # NoNote

\* ------------------------------------------------------------------------
\* Claims on the risk-first engine
\* ------------------------------------------------------------------------

\* x <= limit * 1.2 on floats: false when x is NaN
Within120(x, limit) == x # NaN /\ x[1] * 10 <= limit * 12

ViolatedLimits ==
    (IF Within120(assessment.portfolio_volatility, intent.max_volatility)
     THEN {} ELSE {"Volatilidade"})
    \cup (IF Within120(assessment.expected_max_drawdown, intent.max_drawdown)
          THEN {} ELSE {"Drawdown esperado"})
    \cup (IF assessment.concentration_score <= intent.max_concentration
          THEN {} ELSE {"Concentracao"})

\* C5: within_risk_limits is true if and only if volatility <= 1.2 x
\* max_volatility, expected drawdown <= 1.2 x max_drawdown and concentration
\* <= max_concentration; otherwise risk_warnings holds exactly one warning
\* per violated limit.
C5_WithinLimitsIffThreeLimits ==
    assessment.made =>
        /\ assessment.within_risk_limits = (ViolatedLimits = {})
        /\ ~assessment.within_risk_limits =>
              /\ Len(assessment.risk_warnings) = Cardinality(ViolatedLimits)
              /\ {assessment.risk_warnings[i] :
                     i \in 1..Len(assessment.risk_warnings)} = ViolatedLimits

\* C6: every portfolio POST /portfolio/build persists or returns was
\* assessed by RiskFirstEngine in the same run, with exactly those holdings,
\* and approved.
C6_RiskAssessedBeforeSurfaced ==
    pc \in {"saved", "responded"} =>
        <<[i \in 1..Len(holdings) |-> holdings[i].ticker], Weights(holdings)>>
            \in risk_assessed

\* C7: with no price history (an empty price table, or no return rows) the
\* volatility is the default 0.5 and the assessment is not approved, for
\* every risk budget and tolerance.
C7_MissingPricesNeverApproved ==
    (assessment.made /\ price_rows <= 1) =>
        /\ assessment.portfolio_volatility = Num(RiskUnit \div 2)
        /\ ~assessment.within_risk_limits

\* ------------------------------------------------------------------------
\* Claims on the regime classifier
\* ------------------------------------------------------------------------
RegimeRank ==
    [r \in Regimes |->
        CASE r = "RISK_OFF_STRONG" -> 1
          [] r = "RISK_OFF" -> 2
          [] r = "TRANSITION" -> 3
          [] r = "RISK_ON" -> 4
          [] r = "RISK_ON_STRONG" -> 5]

\* the regime the stated thresholds give to the composite num / den
StatedRegime(f) ==
    CASE f.num >= 8 * f.den -> "RISK_ON_STRONG"
      [] f.num >= 4 * f.den /\ f.num < 8 * f.den -> "RISK_ON"
      [] f.num > -4 * f.den /\ f.num < 4 * f.den -> "TRANSITION"
      [] f.num > -8 * f.den /\ f.num <= -4 * f.den -> "RISK_OFF"
      [] f.num <= -8 * f.den -> "RISK_OFF_STRONG"

\* C8: classify_regime_from_scores maps the composite c to one regime by
\* the fixed thresholds: c >= 8 RISK_ON_STRONG, 4 <= c < 8 RISK_ON,
\* -4 < c < 4 TRANSITION, -8 < c <= -4 RISK_OFF, c <= -8 RISK_OFF_STRONG.
C8_ClassifiedByThresholds ==
    regime_pc = "classified" =>
        /\ regime_data.final_score.den > 0
        /\ 2 * regime_data.weighted_sum * regime_data.final_score.den
              = regime_data.final_score.num * regime_data.total_weight
        /\ regime_data.regime = StatedRegime(regime_data.final_score)

\* C8 witness: a composite exactly on the upper threshold is RISK_ON_STRONG
C8_Witness ==
    /\ regime_pc = "classified"
    /\ regime_data.total_weight > 0
    /\ regime_data.final_score.num = 8 * regime_data.final_score.den
    /\ regime_data.regime = "RISK_ON_STRONG"

\* scores with the value of one available proxy replaced
Raised(sc, p, v) == [sc EXCEPT ![p] = Num(v)]

\* C9: for a fixed set of available proxies, raising the value of one proxy
\* never moves the classification to a lower regime.
C9_RegimeMonotonic ==
    regime_pc = "classified" =>
        \A p \in Available(scores) : \A v \in ScoreValues :
            v > scores[p][1] =>
                RegimeRank[classify_regime_from_scores(Raised(scores, p, v)).regime]
                    >= RegimeRank[regime_data.regime]

\* C9 witness: a classified vector in which raising one proxy lifts the regime
C9_Witness ==
    /\ regime_pc = "classified"
    /\ Cardinality(Available(scores)) = Cardinality(Proxies)
    /\ \E p \in Available(scores) : \E v \in ScoreValues :
          /\ v > scores[p][1]
          /\ RegimeRank[classify_regime_from_scores(Raised(scores, p, v)).regime]
                > RegimeRank[regime_data.regime]

\* the proxies whose series calculate_regime_for_date found missing
MissingProxies(m) ==
    {p \in Proxies :
        CASE p = "yield_curve" -> m.selic # "ok"
          [] p = "risk_spread" -> m.usd # "ok"
          [] p = "ibov_trend" -> m.ibov # "ok"
          [] p = "capital_flow" -> m.usd # "ok" \/ m.ibov # "ok" \/ m.merged # "ok"
          [] p = "liquidity_sentiment" -> m.ibov # "ok"}

\* the scores dict with the missing proxies not listed
ScoresWithoutMissing(sc, m) ==
    [p \in Proxies |-> IF p \in MissingProxies(m) THEN None ELSE sc[p]]

\* C10: on the path calculate_regime_for_date -> classify_regime_from_scores
\* a missing proxy is left out of the denominator: the composite equals the
\* one computed as if the missing proxies had not been listed.
C10_MissingProxyExcluded ==
    regime_pc = "returned" =>
        regime_data.final_score.num * final_score(ScoresWithoutMissing(scores, macro)).den
            = final_score(ScoresWithoutMissing(scores, macro)).num
                * regime_data.final_score.den

\* C11: for any combination of empty or too-short macro series
\* calculate_regime_for_date completes without raising, each missing proxy
\* contributing 0; with all five proxies missing the composite is 0 and the
\* regime is TRANSITION.
C11_MissingSeriesNeverRaises ==
    /\ regime_pc # "raised"
    /\ regime_pc = "returned" =>
          /\ \A p \in MissingProxies(macro) : scores[p] \in {None, Num(0)}
          /\ MissingProxies(macro) = Proxies =>
                /\ regime_data.final_score.num = 0
                /\ regime_data.regime = "TRANSITION"


\* ------------------------------------------------------------------------
\* Claims on the scoring calculator
\* ------------------------------------------------------------------------

\* C12: for N assets scored by calculate_composite_score the rank_universe
\* values are exactly 1..N without gap or duplicate, and an asset with the
\* highest score_final has rank 1, also when score_final values are equal.
C12_RanksArePermutation ==
    score_pc = "returned" =>
        LET n == Len(features_df)
            sf == results.score_final
            rk == results.rank_universe
        IN /\ {rk[i] : i \in 1..n} = 1..n
           /\ \A i, j \in 1..n : i # j => rk[i] # rk[j]
           /\ \E i \in 1..n : rk[i] = 1 /\ \A j \in 1..n : sf[j] <= sf[i]

\* C13: under RISK_OFF_STRONG calculate_composite_score gives score_final = 0
\* to every asset, whether or not fundamentals data is supplied.
C13_RiskOffStrongScoresZero ==
    (score_pc = "returned" /\ regime_at_date = "RISK_OFF_STRONG") =>
        \A i \in 1..Len(features_df) : results.score_final[i] = 0

\* the four-state rule as the specification words it: a factor is missing when
\* the fundamentals carry no data for it
FourStateWeights(w, f) ==
    LET quality_present == f.supplied /\ f.quality_metrics
        value_present == f.supplied /\ f.value_multiples
    IN effective_weights(w, quality_present, value_present)

\* C14: the effective factor weights follow the four-state rule over {both
\* present, quality missing, value missing, both missing}; fundamentals that
\* carry value multiples but no quality metric (or the reverse) get the
\* single-missing rule.
C14_FourStateRule ==
    score_pc = "returned" =>
        results.effective_weights =
            FourStateWeights(FACTOR_WEIGHTS[regime_at_date], fundamentals_df)


\* ------------------------------------------------------------------------
\* Claims on the allocation scenarios
\* ------------------------------------------------------------------------

\* C15: ten candidates, regime TRANSITION, strategy equal_weight: when no
\* sector has more than 4 of the ten holdings, each holding gets weight 0.05
\* and the weights sum to 0.50.
C15_TenEqualWeights ==
    (/\ pc = "built"
     /\ regime = "TRANSITION"
     /\ strategy = "equal_weight"
     /\ Len(holdings) = Len(TenUniverse)
     /\ \A k \in 1..Len(SectorList) : sector_count[k] <= 4)
    => /\ \A i \in 1..Len(holdings) : holdings[i].weight = 5 * Pct
       /\ TotalWeight(holdings) = 50 * Pct


\* the rows step 3 selects from the ranking fetched
Selected == HeadN(top_assets, n_positions)

\* the weight step 4 derives from the shifted score of selected row i
ShiftedWeight(i) ==
    LET raw == [j \in 1..Len(Selected) |-> score_final[Selected[j]]]
        min_score == MinOf({raw[j] : j \in 1..Len(Selected)})
        total == SumSeq([j \in 1..Len(Selected) |-> raw[j] - min_score + 1])
    IN Min(MulDiv(raw[i] - min_score + 1, TARGET_RV_ALLOCATION[regime], total),
           MaxPos(regime))

\* C16: strategy score_weighted, k of the n selected candidates have a
\* positive score and 0 < k < n_positions: the note reads "k/n ativos tinham
\* score positivo", the positions are sized from the shifted scores, and the
\* returned total weight is greater than zero.
C16_ShiftedScoreFallback ==
    (/\ strategy = "score_weighted"
     /\ pc \in {"sized", "built"}
     /\ 0 < PositiveScores(Selected)
     /\ PositiveScores(Selected) < n_positions)
    => /\ allocation_note = [kind |-> "ativos tinham score positivo",
                             k |-> PositiveScores(Selected), n |-> Len(Selected)]
       /\ pc = "sized" =>
             \A i \in 1..Len(holdings) : holdings[i].weight = ShiftedWeight(i)
       /\ pc = "built" => TotalWeight(holdings) > 0


\* the strategy names build_portfolio_from_scores documents
KnownStrategies == {"equal_weight", "score_weighted", "risk_parity"}

\* C17: a call with a negative position count or an unknown strategy name
\* fails at once: no position is sized and neither holdings nor diagnostics
\* are returned, saved or sent.
C17_ContractViolationsFailFast ==
    (n_positions < 0 \/ strategy \notin KnownStrategies)
    => /\ pc \notin {"sized", "asset_capped", "sector_capped", "loop", "built",
                     "saved", "responded"}
       /\ portfolio_holdings = {}
       /\ response = <<>>


\* a series whose entries are all the same value
IsConstant(v) == \A i, j \in 1..Len(v) : v[i] = v[j]

\* C18: for any constant input series, a series of one element included,
\* calculate_z_score returns 0 for every entry.
C18_ConstantSeriesZero ==
    (z_pc = "returned" /\ IsConstant(values))
    => \A i \in 1..Len(values) : z_scores[i] = 0


\* ------------------------------------------------------------------------
\* Claims on the regime_state table
\* ------------------------------------------------------------------------
RowsOf(d) == {r \in regime_state : r.date = d}

\* C19: after any interleaving of save_regime_state calls regime_state holds
\* at most one row per date, and that row carries every field of the most
\* recently committed save for the date.
C19_LastWriterWins ==
    \A d \in Dates :
        /\ Cardinality(RowsOf(d)) <= 1
        /\ commits[d] = 0 => RowsOf(d) = {}
        /\ commits[d] > 0 =>
              \E r \in RowsOf(d) :
                  /\ r.regime = last_commit[d].regime
                  /\ r.score_total = last_commit[d].score_total

\* two callers have saved different records for one date, both committed
C19_Witness ==
    \E d \in Dates :
        /\ commits[d] >= 2
        /\ \A p \in Savers : save_pc[p] = "idle" /\ record[p].made /\ record[p].date = d
        /\ \E p, q \in Savers :
              /\ record[p].regime # record[q].regime
              /\ record[p].score_total # record[q].score_total
        /\ \E r \in RowsOf(d) : r.regime = last_commit[d].regime /\ r.created_at < now


\* ------------------------------------------------------------------------
\* Claims on the simulation router
\* ------------------------------------------------------------------------

\* the table the request reads
QueriedTable == IF is_real THEN real_positions ELSE simulated_positions

\* C20: GET /simulation/positions for a user authenticated under tenant T
\* returns only positions whose tenant_id is T, also when rows of the same
\* user_id exist under another tenant.
C20_PositionsIsolatedByTenant ==
    /\ \A pos \in positions : pos.tenant_id = current_user.tenant_id
    /\ sim_pc = "returned" =>
          sim_response =
              {PositionResponse(r) :
                  r \in {x \in QueriedTable :
                            /\ x.user_id = current_user.user_id
                            /\ x.tenant_id = current_user.tenant_id}}
    /\ sim_pc # "returned" => sim_response = {}

\* a request answered with a position while the same user has a row under
\* another tenant in the table read
C20_Witness ==
    /\ sim_pc = "returned"
    /\ positions # {}
    /\ \E r \in QueriedTable :
          r.user_id = current_user.user_id /\ r.tenant_id # current_user.tenant_id


\* ------------------------------------------------------------------------
\* Claims on the range of the regime composite
\* ------------------------------------------------------------------------

\* the scores dicts whose proxies are each None or within [-2, 2]
ClippedScores == [Proxies -> {None} \cup {Num(v) : v \in {-2, 0, 2}}]

AllAt(v) == \A p \in Proxies : scores[p] = Num(v)

\* C30: every regime is attainable from proxy scores within [-2, 2]; all five
\* proxies at +2 classify as RISK_ON_STRONG and all five at -2 as
\* RISK_OFF_STRONG.
C30_EveryRegimeAttainable ==
    /\ (regime_pc = "classified" /\ AllAt(2)) =>
          /\ regime_data.regime = "RISK_ON_STRONG"
          /\ \A r \in Regimes :
                \E sc \in ClippedScores : classify_regime_from_scores(sc).regime = r
    /\ (regime_pc = "classified" /\ AllAt(-2)) =>
          regime_data.regime = "RISK_OFF_STRONG"


\* ------------------------------------------------------------------------
\* Claims on the risk assessment under partial price data and ticker order
\* ------------------------------------------------------------------------

TickerSet == {tickers[i] : i \in 1..Len(tickers)}

\* C23: when only some of the proposed tickers have price rows in the
\* lookback window, assess_portfolio_risk does not raise and returns an
\* assessment with a decision and warnings.
C23_DataGapsNeverRaise ==
    (risk_pc # "start" /\ priced # {} /\ priced # TickerSet) =>
        /\ risk_pc # "raised"
        /\ assessment.made

\* the weight the caller passed for each column of the price table
CallerWeights(cols) ==
    [k \in 1..Len(cols) |-> weights[CHOOSE i \in 1..Len(tickers) : tickers[i] = cols[k]]]

\* C26: volatility and every asset_contributions[t] are computed with the
\* weight the caller passed for ticker t, whatever the order of the ticker
\* list.
C26_WeightsFollowTickers ==
    (assessment.made /\ priced = TickerSet /\ price_rows > 0) =>
        LET cols == get_historical_prices(priced, price_rows)
            w == CallerWeights(cols)
        IN /\ assessment.portfolio_volatility =
                 calculate_portfolio_volatility(cols, w, price_rows)
           /\ assessment.asset_contributions =
                 calculate_risk_contributions(cols, w, price_rows)


\* ------------------------------------------------------------------------
\* Claims on the cash share under RISK_OFF_STRONG
\* ------------------------------------------------------------------------

\* C24: with regime RISK_OFF_STRONG the weights returned for a non-empty
\* candidate set sum to at most 0.05 + 0.001, for every strategy.
C24_RiskOffStrongMostlyCash ==
    (Built /\ regime = "RISK_OFF_STRONG") =>
        TotalWeight(holdings) <= TARGET_RV_ALLOCATION[regime] + Milli


\* ------------------------------------------------------------------------
\* Claims on POST /simulation/order
\* ------------------------------------------------------------------------

Caller == get_current_user(current_user.user_id)

\* the simulated positions the caller held before the last request
HeldBefore ==
    {r \in tables_before.simulated_positions :
        r.user_id = current_user.user_id /\ r.tenant_id = current_user.tenant_id}

\* the last request was a well-formed simulated BUY of a ticker the caller
\* did not hold, placed with the caller's count at the plan limit
BuyAtLimit ==
    /\ n_requests > 0
    /\ order.order_type = "BUY"
    /\ order.quantity > 0
    /\ ~order.is_real
    /\ order.ticker \in DOMAIN close
    /\ \A r \in HeldBefore : r.ticker # order.ticker
    /\ Cardinality(HeldBefore) =
          get_tenant_capabilities(current_user.tenant_id).limits.max_simulated_positions

\* C21: the number of simulated positions of a (user, tenant) never exceeds
\* the plan's max_simulated_positions; a BUY of a ticker not yet held, placed
\* when the count equals the limit, is rejected with 403 and adds no position.
C21_PositionLimitHolds ==
    /\ \A u \in Users, t \in Tenants :
          current_positions_count(simulated_positions, u, t)
             <= get_tenant_capabilities(t).limits.max_simulated_positions
    /\ BuyAtLimit =>
          /\ sim_pc = "http_403"
          /\ simulated_positions = tables_before.simulated_positions

\* C21 witness: a BUY at the limit was rejected.
C21_Witness == BuyAtLimit /\ sim_pc = "http_403"

\* the position rows of the wallet of the last request, before and after
PositionsBefore ==
    IF is_real THEN tables_before.real_positions ELSE tables_before.simulated_positions

PositionsAfter == IF is_real THEN real_positions ELSE simulated_positions

\* C27: after create_order under tenant T every position row of every other
\* tenant has the same quantity, avg_price and total_cost as before.
C27_OtherTenantsUntouched ==
    n_requests > 0 =>
        /\ \A r \in PositionsBefore :
              r.tenant_id # current_user.tenant_id => r \in PositionsAfter
        /\ \A r \in PositionsAfter :
              r.tenant_id # current_user.tenant_id => r \in PositionsBefore

\* BUY quantities minus SELL quantities of the orders recorded for a key
RECURSIVE NetQuantity(_, _, _, _)
NetQuantity(orders, u, t, x) ==
    IF orders = <<>> THEN 0
    ELSE LET o == orders[Len(orders)]
             rest == NetQuantity(SubSeq(orders, 1, Len(orders) - 1), u, t, x)
         IN IF o.user_id = u /\ o.tenant_id = t /\ o.ticker = x
            THEN IF o.order_type = "BUY" THEN rest + o.quantity ELSE rest - o.quantity
            ELSE rest

\* the positions table agrees with the orders table on every key
Reconciled(orders, table) ==
    \A u \in Users, t \in Tenants, x \in RequestTickers :
        LET net == NetQuantity(orders, u, t, x)
            rows == select_position(table, u, t, x)
        IN /\ Cardinality(rows) <= 1
           /\ net = 0 => rows = {}
           /\ net # 0 => \E r \in rows : r.quantity = net

\* C28: from empty tables, after any sequence of order requests the position
\* quantity of every (user, tenant, ticker) is the BUY quantities minus the
\* SELL quantities of the recorded orders of the key, no row exists when that
\* is 0, and a rejected order leaves orders and positions unchanged.
C28_PositionsMatchOrders ==
    /\ Reconciled(simulated_orders, simulated_positions)
    /\ Reconciled(real_orders, real_positions)
    /\ sim_pc \in {"http_400", "http_403"} => Tables = tables_before

\* C28 witness: a position was bought twice, sold down to nothing, and a
\* later request was rejected.
C28_Witness ==
    /\ sim_pc \in {"http_400", "http_403"}
    /\ Len(simulated_orders) >= 2
    /\ \E i \in 1..Len(simulated_orders) : simulated_orders[i].order_type = "SELL"
    /\ \E u \in Users, t \in Tenants, x \in RequestTickers :
          /\ \E i \in 1..Len(simulated_orders) :
                /\ simulated_orders[i].user_id = u
                /\ simulated_orders[i].ticker = x
          /\ NetQuantity(simulated_orders, u, t, x) = 0
          /\ select_position(simulated_positions, u, t, x) = {}


\* ------------------------------------------------------------------------
\* Claims on POST /recommendation/asset-request
\* ------------------------------------------------------------------------

\* two prompts that differ at most in case and accents
SameIgnoringCaseAndAccents(p, q) ==
    Len(p) = Len(q) /\ \A i \in 1..Len(p) : p[i].base = q[i].base

\* the table as it stood before the last request
RequestsBefore ==
    IF rq_response.status = "created"
    THEN SubSeq(pending_asset_requests, 1, Len(pending_asset_requests) - 1)
    ELSE pending_asset_requests

\* the rows the last request duplicates
Duplicated ==
    {i \in 1..Len(RequestsBefore) :
        /\ SameIgnoringCaseAndAccents(RequestsBefore[i].raw_prompt, rq_prompt)
        /\ RequestsBefore[i].status \in {"PENDING", "APPROVED"}
        /\ RequestsBefore[i].created_at >= clock - RecentDays}

\* C22: a request whose prompt equals, case- and accent-insensitively, that
\* of a PENDING or APPROVED request of the last 7 days creates no row and
\* returns already_requested with the request_id of such a request.
C22_AssetRequestsDeduplicated ==
    (rq_pc \in {"responded", "http_400"} /\ Duplicated # {}) =>
        /\ rq_pc = "responded"
        /\ rq_response.status = "already_requested"
        /\ rq_response.request_id \in Duplicated
        /\ pending_asset_requests = RequestsBefore

\* C22 witness: a request that differs in case and accents from a row that
\* is exactly 7 days old was answered already_requested.
C22_Witness ==
    /\ rq_pc = "responded"
    /\ rq_response.status = "already_requested"
    /\ \E i \in Duplicated :
          /\ pending_asset_requests[i].raw_prompt # rq_prompt
          /\ pending_asset_requests[i].created_at = clock - RecentDays
          /\ rq_response.request_id = i

\* ------------------------------------------------------------------------
\* Claims on parse_intent
\* ------------------------------------------------------------------------

\* the intent a process that has parsed nothing before returns for the prompt
FreshIntent(prompt) == parse(PARAMETER_MAP, prompt).intent

\* C29: parse_intent is a function of its prompt alone: the intent returned
\* for a prompt is the one a fresh process returns for it, whatever was parsed
\* earlier, and parsing leaves IntentParser.PARAMETER_MAP as the class body
\* built it.
C29_ParseIntentDependsOnPromptOnly ==
    /\ parameter_map = PARAMETER_MAP
    /\ parsed # <<>> => intent_out = FreshIntent(parsed[Len(parsed)])

\* ------------------------------------------------------------------------
\* Claims on the signals table
\* ------------------------------------------------------------------------

\* the tickers that have a row in signals for the date
StoredTickers == DOMAIN signal_rows

\* C25: after any sequence of save_scores_to_database calls for one date the
\* ranks stored for the date are a contiguous permutation of 1..N, N being the
\* number of rows stored: every rank of 1..N is held by exactly one row.
C25_StoredRanksArePermutation ==
    n_saves > 0 =>
        \A r \in 1..Cardinality(StoredTickers) :
            Cardinality({t \in StoredTickers :
                            signal_rows[t].rank_universe = r}) = 1

====
